---- MODULE Spec2Model ----
(***************************************************************************)
(* TicketDuck (src/bubble.go): the session state machine, the request      *)
(* orchestration of handleFormCompletion and the backend client factory.   *)
(*                                                                         *)
(* Text values (Go strings that are edited, trimmed, concatenated or       *)
(* counted) are sequences of tokens; the token "\n" is a line break and    *)
(* <<>> is the empty string.  Identifiers that are only compared (backend  *)
(* keys, provider names, mode names, key names) are TLA+ strings.          *)
(***************************************************************************)
EXTENDS Integers, Sequences, FiniteSets, TLC

VARIABLES
    m,          \* the bubbletea model held by the event loop (type model)
    loop,       \* event loop: "idle" | "handling" | "quit" | "crashed"
    hpc,        \* position of handleFormCompletion after it launched a request
    rpc,        \* position of the request goroutine (go func at line 1414)
    spc,        \* position of the spinner goroutine (go func at line 1424)
    done,       \* the buffered channel `done` (capacity 1)
    cancelled,  \* spinnerCtx has been cancelled
    lingering,  \* spinner goroutines of returned transitions that have not exited
    inflight,   \* requests launched whose outcome the transition has not received
    call,       \* what the backend call of the latest request returned,
                \* kept until the next event is handled
    disk,       \* the configuration last written by saveConfig
    clipboard,  \* the text last handed to clipboard.WriteAll
    ev          \* the event last taken from the queue, with the mode it met

vars == <<m, loop, hpc, rpc, spc, done, cancelled, lingering, inflight, call,
          disk, clipboard, ev>>

-----------------------------------------------------------------------------
(* Bounds of the model *)

\* longest input buffer typed on the question screen
MaxInput == 1
\* longest value typed into a field of the configuration screen
MaxField == 1
\* spinner goroutines that may still be winding down when a request starts
MaxLingering == 1

-----------------------------------------------------------------------------
(* Text helpers *)

NL == "\n"

Max(a, b) == IF a > b THEN a ELSE b

Whitespace == {" ", "\t", NL}

\* strings.TrimSpace
RECURSIVE TrimLeft(_)
TrimLeft(s) == IF s # <<>> /\ Head(s) \in Whitespace THEN TrimLeft(Tail(s)) ELSE s

RECURSIVE TrimRight(_)
TrimRight(s) ==
    IF s # <<>> /\ s[Len(s)] \in Whitespace
    THEN TrimRight(SubSeq(s, 1, Len(s) - 1))
    ELSE s

\* a TrimSpace that returns its argument
TrimSpace_Identity(s) == s

TrimSpace(s) == TrimRight(TrimLeft(s))

\* number of occurrences of token t in s
RECURSIVE Count(_, _)
Count(s, t) ==
    IF s = <<>> THEN 0
    ELSE (IF Head(s) = t THEN 1 ELSE 0) + Count(Tail(s), t)

\* countLines: len(strings.Split(s, "\n"))
countLines(s) == Count(s, NL) + 1

\* number of non-empty lines of s
RECURSIVE NonEmptyLines(_, _)
NonEmptyLines(s, open) ==
    IF s = <<>> THEN (IF open THEN 1 ELSE 0)
    ELSE IF Head(s) = NL
         THEN (IF open THEN 1 ELSE 0) + NonEmptyLines(Tail(s), FALSE)
         ELSE NonEmptyLines(Tail(s), TRUE)

\* fmt.Sprintf("%d", i) for the question numbers
Itoa(i) == ToString(i)

-----------------------------------------------------------------------------
(* Fixed data *)

selectionMode == "selectionMode"
questionMode == "questionMode"
displayMode == "displayMode"
apiKeyInputMode == "apiKeyInputMode"
modelSelectMode == "modelSelectMode"
styleSelectMode == "styleSelectMode"

Modes == {selectionMode, questionMode, displayMode, apiKeyInputMode,
          modelSelectMode, styleSelectMode}

ProviderOpenAI == "openai"
ProviderAnthropic == "claude"
ProviderLocal == "local"

ZeroModelConfig ==
    [Provider |-> "", ModelName |-> <<>>, APIKey |-> <<>>, APIBaseURL |-> <<>>]

DefaultModelConfigs ==
    [k \in {"openai", "anthropic", "ollama"} |->
        CASE k = "openai" ->
                [Provider |-> ProviderOpenAI, ModelName |-> <<"gpt-3.5-turbo">>,
                 APIKey |-> <<>>, APIBaseURL |-> <<>>]
          [] k = "anthropic" ->
                [Provider |-> ProviderAnthropic,
                 ModelName |-> <<"claude-3-sonnet-20240229">>,
                 APIKey |-> <<>>, APIBaseURL |-> <<>>]
          [] k = "ollama" ->
                [Provider |-> ProviderLocal, ModelName |-> <<"llama3">>,
                 APIKey |-> <<>>,
                 APIBaseURL |-> <<"http://", "localhost:11434">>]]

styleThemes == <<"Default", "Ocean", "Sunset">>

ZeroFormType == [name |-> "", questions |-> <<>>, prompt |-> ""]

formTypes ==
    << [name |-> "Incident Response",
        questions |-> << "What happened?", "What did you do?",
                         "Why did you do it?",
                         "Did it work? If not, what was the result?",
                         "What did you learn?" >>,
        prompt |-> "craft a work note for an incident response"],
       [name |-> "Pull Request/Commit Message",
        questions |-> << "What did you do?", "Why did you do it?",
                         "What did you learn?" >>,
        prompt |-> "craft a title and description for a commit message or pull request"],
       [name |-> "Service Request",
        questions |-> << "What do you want?", "Why do you want it?",
                         "How do you want it?", "What will you do with it?" >>,
        prompt |-> "craft a message for a service request"],
       [name |-> "Development ticket",
        questions |-> << "Is this a feature, bug, or chore?",
                         "What is the current behavior?",
                         "How do you want to change, modify, or add behavior?",
                         "Why do you want this change? What are the benefits?",
                         "What are the acceptance criteria for this change?" >>,
        prompt |-> "create a ticket for a development task"] >>

-----------------------------------------------------------------------------
(* Go maps and slices *)

\* m[k] on a map: the zero value when the key is absent
Lookup(models, k) == IF k \in DOMAIN models THEN models[k] ELSE ZeroModelConfig

\* m[k] = v on a map
MapSet(models, k, v) ==
    [x \in (DOMAIN models) \cup {k} |-> IF x = k THEN v ELSE models[x]]

\* the backend identifiers of the model in byte order, as sort.Strings leaves them
KeyOrder == <<"", "anthropic", "custom", "ollama", "openai">>

RECURSIVE SortedFrom(_, _)
SortedFrom(order, S) ==
    IF order = <<>> THEN <<>>
    ELSE (IF Head(order) \in S THEN <<Head(order)>> ELSE <<>>)
         \o SortedFrom(Tail(order), S)

SortStrings(S) == SortedFrom(KeyOrder, S)

\* indexOf: 0-based index of item in slice, 0 when absent
RECURSIVE indexOfFrom(_, _, _)
indexOfFrom(slice, item, i) ==
    IF i > Len(slice) THEN 0
    ELSE IF slice[i] = item THEN i - 1
    ELSE indexOfFrom(slice, item, i + 1)

indexOf(slice, item) == indexOfFrom(slice, item, 1)

-----------------------------------------------------------------------------
(* The viewport and the Markdown rendering collaborator *)

\* viewport.Model{} as initialModel leaves it
ZeroViewport ==
    [Width |-> 0, Height |-> 0, YOffset |-> 0,
     content |-> [src |-> <<>>, base |-> ""]]

\* glamour's rendering of md, styled with the theme's base colour: a value
\* determined by the document text and the theme
Rendered(md, theme) == [src |-> md, base |-> theme]

\* lines of the rendering handed to the viewport: a leading blank line, then
\* every non-empty line of the document followed by a blank line
RenderedLines(md) == 1 + 2 * NonEmptyLines(md, FALSE)

\* viewport.SetContent: install the lines and, when the offset lies past the
\* last line, go to the bottom
SetContent(vp, styled) ==
    LET n == RenderedLines(styled.src) IN
    [vp EXCEPT !.content = styled,
               !.YOffset = IF vp.YOffset > n - 1
                           THEN Max(0, n - vp.Height)
                           ELSE vp.YOffset]

renderMarkdownToViewport(md, vp, theme) == SetContent(vp, Rendered(md, theme))

\* styleThemes[styleThemeIndex]
Theme(s) == styleThemes[s.styleThemeIndex + 1]

-----------------------------------------------------------------------------
(* Document builder *)

RECURSIVE Sections(_, _, _)
Sections(questions, answers, i) ==
    IF i > Len(questions) THEN <<>>
    ELSE <<"## ", Itoa(i), ". ", questions[i], NL, NL>>
         \o (IF i <= Len(answers) THEN answers[i] \o <<NL, NL>> ELSE <<>>)
         \o Sections(questions, answers, i + 1)

\* a builder whose loop stops one question short
buildSelectedMarkdown_StopsShort(s) ==
    <<"# ", s.currentForm.name, NL, NL>>
    \o Sections(SubSeq(s.currentForm.questions, 1,
                       Len(s.currentForm.questions) - 1), s.answers, 1)

\* buildSelectedMarkdown
buildSelectedMarkdown(s) ==
    <<"# ", s.currentForm.name, NL, NL>>
    \o Sections(s.currentForm.questions, s.answers, 1)

\* the section makeLLMRequest appends to the document
TicketSummary(resp) == <<NL, "## Ticket Summary", NL, NL>> \o resp

\* the placeholder and the error document of handleFormCompletion
ProcessingMsg(active) ==
    <<"## Processing with ", active, NL, NL, "Generating summary...">>

ErrorMsg(active, err) ==
    <<"## Error", NL, NL, "Failed to get response from ", active, ": ">>
    \o err \o <<NL, NL, "Check the log file for details.">>

-----------------------------------------------------------------------------
(* Construction *)

\* textinput.New(), focused or not
NewInput(focus) == [value |-> <<>>, focus |-> focus]

\* initialModel without the check of the active backend
initialModel_AlwaysMenu(config) ==
    LET modelKeys == SortStrings(DOMAIN config.Models) IN
    [currentMode     |-> selectionMode,
     cursor          |-> 0,
     selectedIndex   |-> -1,
     currentForm     |-> ZeroFormType,
     answers         |-> <<>>,
     currentQuestion |-> 0,
     inputString     |-> <<>>,
     viewport        |-> ZeroViewport,
     gptRawOutput    |-> <<>>,
     content         |-> <<>>,
     gPressed        |-> FALSE,
     apiKeyInput     |-> NewInput(TRUE),
     apiBaseInput    |-> NewInput(FALSE),
     modelNameInput  |-> NewInput(FALSE),
     focusedInput    |-> 0,
     saveConfig      |-> TRUE,
     config          |-> config,
     modelCursor     |-> indexOf(modelKeys, config.ActiveModel),
     modelKeys       |-> modelKeys,
     selectedModel   |-> config.ActiveModel,
     styleThemeIndex |-> 0,
     styles          |-> styleThemes[1]]

initialModel(config) ==
    LET modelKeys == SortStrings(DOMAIN config.Models) IN
    [currentMode     |-> IF config.ActiveModel = ""
                         THEN modelSelectMode ELSE selectionMode,
     cursor          |-> 0,
     selectedIndex   |-> -1,
     currentForm     |-> ZeroFormType,
     answers         |-> <<>>,
     currentQuestion |-> 0,
     inputString     |-> <<>>,
     viewport        |-> ZeroViewport,
     gptRawOutput    |-> <<>>,
     content         |-> <<>>,
     gPressed        |-> FALSE,
     apiKeyInput     |-> NewInput(TRUE),
     apiBaseInput    |-> NewInput(FALSE),
     modelNameInput  |-> NewInput(FALSE),
     focusedInput    |-> 0,
     saveConfig      |-> TRUE,
     config          |-> config,
     modelCursor     |-> indexOf(modelKeys, config.ActiveModel),
     modelKeys       |-> modelKeys,
     selectedModel   |-> config.ActiveModel,
     styleThemeIndex |-> 0,
     styles          |-> styleThemes[1]]

-----------------------------------------------------------------------------
(* Key messages: a key is named by msg.String(); KeyType is msg.Type *)

KeyType(k) ==
    CASE k = "enter"     -> "KeyEnter"
      [] k = "esc"       -> "KeyEsc"
      [] k = "ctrl+c"    -> "KeyCtrlC"
      [] k = "ctrl+s"    -> "KeyCtrlS"
      [] k = "ctrl+t"    -> "KeyCtrlT"
      [] k = "ctrl+y"    -> "KeyCtrlY"
      [] k = "backspace" -> "KeyBackspace"
      [] k = "delete"    -> "KeyDelete"
      [] k = "up"        -> "KeyUp"
      [] k = "down"      -> "KeyDown"
      [] k = "pgup"      -> "KeyPgUp"
      [] k = "pgdown"    -> "KeyPgDown"
      [] k = " "         -> "KeySpace"
      [] OTHER           -> "KeyRunes"

\* What a handler returns: the next model, the command (tea.Quit or nil), and
\* the collaborators it called on the way
Ret(s) == [m |-> s, cmd |-> "nil", save |-> FALSE, copy |-> FALSE, complete |-> FALSE]

Quit(s) == [Ret(s) EXCEPT !.cmd = "quit"]

\* an index out of range stops the process
Panic(s) == [Ret(s) EXCEPT !.cmd = "panic"]

-----------------------------------------------------------------------------
(* updateSelectionMode *)

\* updateSelectionMode choosing a type without making its answer slice
updateSelectionMode_KeepsAnswers(s, k) ==
    CASE k = "q" -> Quit(s)
      [] k \in {"up", "k"} ->
            Ret(IF s.cursor > 0 THEN [s EXCEPT !.cursor = @ - 1] ELSE s)
      [] k \in {"down", "j"} ->
            Ret(IF s.cursor < Len(formTypes) - 1
                THEN [s EXCEPT !.cursor = @ + 1] ELSE s)
      [] k \in {" ", "enter"} ->
            IF s.selectedIndex = s.cursor
            THEN Ret([s EXCEPT !.selectedIndex = -1])
            ELSE Ret([s EXCEPT
                        !.selectedIndex = s.cursor,
                        !.currentForm = formTypes[s.cursor + 1],
                        !.currentMode = questionMode,
                        !.currentQuestion = 0])
      [] OTHER -> Ret(s)

updateSelectionMode(s, k) ==
    CASE k = "q" -> Quit(s)
      [] k \in {"up", "k"} ->
            Ret(IF s.cursor > 0 THEN [s EXCEPT !.cursor = @ - 1] ELSE s)
      [] k \in {"down", "j"} ->
            Ret(IF s.cursor < Len(formTypes) - 1
                THEN [s EXCEPT !.cursor = @ + 1] ELSE s)
      [] k \in {" ", "enter"} ->
            IF s.currentMode = selectionMode
            THEN IF s.selectedIndex = s.cursor
                 THEN Ret([s EXCEPT !.selectedIndex = -1])
                 ELSE Ret([s EXCEPT
                        !.selectedIndex = s.cursor,
                        !.currentForm = formTypes[s.cursor + 1],
                        !.currentMode = questionMode,
                        !.answers = [i \in 1..Len(formTypes[s.cursor + 1].questions)
                                        |-> <<>>],
                        !.currentQuestion = 0])
            ELSE Ret(s)
      [] OTHER -> Ret(s)

-----------------------------------------------------------------------------
(* updateQuestionMode *)

\* a tail that advances once more before it finishes the form
AdvanceOrFinish_OnePast(s) ==
    IF s.currentQuestion < Len(s.currentForm.questions)
    THEN Ret([s EXCEPT !.currentQuestion = @ + 1])
    ELSE [Ret(s) EXCEPT !.complete = TRUE]

\* the shared tail of confirm and skip: advance, or finish the form
AdvanceOrFinish(s) ==
    IF s.currentQuestion < Len(s.currentForm.questions) - 1
    THEN Ret([s EXCEPT !.currentQuestion = @ + 1])
    ELSE [Ret(s) EXCEPT !.complete = TRUE]

\* updateQuestionMode whose skip leaves the input buffer as it is
updateQuestionMode_SkipKeepsBuffer(s, k) ==
    LET t == KeyType(k)
        inRange == s.currentQuestion + 1 \in 1..Len(s.answers)
    IN
    CASE t \in {"KeyEsc", "KeyCtrlC"} -> Quit(s)
      [] t = "KeyEnter" ->
            IF ~inRange THEN Panic(s)
            ELSE AdvanceOrFinish(
                    [s EXCEPT !.answers[s.currentQuestion + 1] = TrimSpace(s.inputString),
                              !.inputString = <<>>])
      [] t = "KeyCtrlS" ->
            IF ~inRange THEN Panic(s)
            ELSE AdvanceOrFinish([s EXCEPT !.answers[s.currentQuestion + 1] = <<>>])
      [] t \in {"KeyBackspace", "KeyDelete"} ->
            Ret(IF Len(s.inputString) > 0
                THEN [s EXCEPT !.inputString = SubSeq(@, 1, Len(@) - 1)]
                ELSE s)
      [] t = "KeyRunes" -> Ret([s EXCEPT !.inputString = @ \o <<k>>])
      [] t = "KeySpace" -> Ret([s EXCEPT !.inputString = @ \o <<" ">>])
      [] OTHER -> Ret(s)

updateQuestionMode(s, k) ==
    LET t == KeyType(k)
        inRange == s.currentQuestion + 1 \in 1..Len(s.answers)
    IN
    CASE t \in {"KeyEsc", "KeyCtrlC"} -> Quit(s)
      [] t = "KeyEnter" ->
            IF ~inRange THEN Panic(s)
            ELSE AdvanceOrFinish(
                    [s EXCEPT !.answers[s.currentQuestion + 1] = TrimSpace(s.inputString),
                              !.inputString = <<>>])
      [] t = "KeyCtrlS" ->
            IF ~inRange THEN Panic(s)
            ELSE AdvanceOrFinish(
                    [s EXCEPT !.answers[s.currentQuestion + 1] = <<>>,
                              !.inputString = <<>>])
      [] t \in {"KeyBackspace", "KeyDelete"} ->
            Ret(IF Len(s.inputString) > 0
                THEN [s EXCEPT !.inputString = SubSeq(@, 1, Len(@) - 1)]
                ELSE s)
      [] t = "KeyRunes" -> Ret([s EXCEPT !.inputString = @ \o <<k>>])
      [] t = "KeySpace" -> Ret([s EXCEPT !.inputString = @ \o <<" ">>])
      [] OTHER -> Ret(s)

-----------------------------------------------------------------------------
(* updateDisplayMode *)

updateDisplayMode(s, k) ==
    LET vp == s.viewport
        maxYOffset == countLines(s.content) - vp.Height
    IN
    CASE k = "q" -> Quit(s)
      [] k \in {"up", "k"} ->
            Ret(IF vp.YOffset > 0 THEN [s EXCEPT !.viewport.YOffset = @ - 1] ELSE s)
      [] k \in {"down", "j"} ->
            Ret(IF vp.YOffset < maxYOffset
                THEN [s EXCEPT !.viewport.YOffset = @ + 1] ELSE s)
      [] k = "pgup" ->
            Ret([s EXCEPT !.viewport.YOffset = Max(0, vp.YOffset - vp.Height)])
      [] k = "pgdown" ->
            Ret([s EXCEPT !.viewport.YOffset =
                    IF vp.YOffset + vp.Height > maxYOffset
                    THEN maxYOffset ELSE vp.YOffset + vp.Height])
      [] k = "G" ->
            Ret([s EXCEPT !.viewport.YOffset = Max(0, maxYOffset),
                          !.gPressed = FALSE])
      [] k = "g" ->
            Ret(IF s.gPressed
                THEN [s EXCEPT !.viewport.YOffset = 0, !.gPressed = FALSE]
                ELSE [s EXCEPT !.gPressed = TRUE])
      [] k = "ctrl+y" -> [Ret(s) EXCEPT !.copy = TRUE]
      [] OTHER -> Ret(s)

-----------------------------------------------------------------------------
(* updateModelSelectMode *)

\* the check both updateModelSelectMode and handleFormCompletion make: the
\* entry lacks the credential (hosted) or the base address (self-hosted)
NeedsConfiguration(mc) ==
    \/ mc.Provider # ProviderLocal /\ mc.APIKey = <<>>
    \/ mc.Provider = ProviderLocal /\ mc.APIBaseURL = <<>>

\* updateModelSelectMode whose confirm neither saves nor looks at the entry
updateModelSelectMode_NoSave(s, k) ==
    CASE k = "q" -> Quit(s)
      [] k \in {"up", "k"} ->
            Ret(IF s.modelCursor > 0 THEN [s EXCEPT !.modelCursor = @ - 1] ELSE s)
      [] k \in {"down", "j"} ->
            Ret(IF s.modelCursor < Len(s.modelKeys) - 1
                THEN [s EXCEPT !.modelCursor = @ + 1] ELSE s)
      [] k \in {" ", "enter"} ->
            LET key == s.modelKeys[s.modelCursor + 1] IN
            Ret([s EXCEPT !.selectedModel = key, !.config.ActiveModel = key,
                          !.currentMode = selectionMode])
      [] k = "c" ->
            LET key == s.modelKeys[s.modelCursor + 1] IN
            Ret([s EXCEPT !.selectedModel = key, !.config.ActiveModel = key,
                          !.currentMode = apiKeyInputMode])
      [] OTHER -> Ret(s)

\* updateModelSelectMode whose configure command is for entries that lack
\* something, and leaves the active backend as it is
updateModelSelectMode_ConfigureIfNeeded(s, k) ==
    CASE k = "q" -> Quit(s)
      [] k \in {"up", "k"} ->
            Ret(IF s.modelCursor > 0 THEN [s EXCEPT !.modelCursor = @ - 1] ELSE s)
      [] k \in {"down", "j"} ->
            Ret(IF s.modelCursor < Len(s.modelKeys) - 1
                THEN [s EXCEPT !.modelCursor = @ + 1] ELSE s)
      [] k \in {" ", "enter"} ->
            LET key == s.modelKeys[s.modelCursor + 1]
                s1 == [s EXCEPT !.selectedModel = key, !.config.ActiveModel = key]
            IN [Ret([s1 EXCEPT !.currentMode =
                        IF NeedsConfiguration(Lookup(s1.config.Models, key))
                        THEN apiKeyInputMode ELSE selectionMode])
                  EXCEPT !.save = TRUE]
      [] k = "c" ->
            LET key == s.modelKeys[s.modelCursor + 1] IN
            IF NeedsConfiguration(Lookup(s.config.Models, key))
            THEN Ret([s EXCEPT !.selectedModel = key, !.config.ActiveModel = key,
                               !.currentMode = apiKeyInputMode])
            ELSE Ret(s)
      [] OTHER -> Ret(s)

\* updateModelSelectMode whose configure command leaves the active backend
\* as it is
updateModelSelectMode_ConfigureOnly(s, k) ==
    CASE k = "q" -> Quit(s)
      [] k \in {"up", "k"} ->
            Ret(IF s.modelCursor > 0 THEN [s EXCEPT !.modelCursor = @ - 1] ELSE s)
      [] k \in {"down", "j"} ->
            Ret(IF s.modelCursor < Len(s.modelKeys) - 1
                THEN [s EXCEPT !.modelCursor = @ + 1] ELSE s)
      [] k \in {" ", "enter"} ->
            IF s.modelCursor + 1 \notin 1..Len(s.modelKeys) THEN Panic(s)
            ELSE
            LET key == s.modelKeys[s.modelCursor + 1]
                s1 == [s EXCEPT !.selectedModel = key, !.config.ActiveModel = key]
            IN [Ret([s1 EXCEPT !.currentMode =
                        IF NeedsConfiguration(Lookup(s1.config.Models, key))
                        THEN apiKeyInputMode ELSE selectionMode])
                  EXCEPT !.save = TRUE]
      [] k = "c" ->
            IF s.modelCursor + 1 \notin 1..Len(s.modelKeys) THEN Panic(s)
            ELSE
            LET key == s.modelKeys[s.modelCursor + 1] IN
            Ret([s EXCEPT !.selectedModel = key, !.currentMode = apiKeyInputMode])
      [] OTHER -> Ret(s)

updateModelSelectMode(s, k) ==
    CASE k = "q" -> Quit(s)
      [] k \in {"up", "k"} ->
            Ret(IF s.modelCursor > 0 THEN [s EXCEPT !.modelCursor = @ - 1] ELSE s)
      [] k \in {"down", "j"} ->
            Ret(IF s.modelCursor < Len(s.modelKeys) - 1
                THEN [s EXCEPT !.modelCursor = @ + 1] ELSE s)
      [] k \in {" ", "enter"} ->
            IF s.modelCursor + 1 \notin 1..Len(s.modelKeys) THEN Panic(s)
            ELSE
            LET key == s.modelKeys[s.modelCursor + 1]
                s1 == [s EXCEPT !.selectedModel = key, !.config.ActiveModel = key]
            IN [Ret([s1 EXCEPT !.currentMode =
                        IF NeedsConfiguration(Lookup(s1.config.Models, key))
                        THEN apiKeyInputMode ELSE selectionMode])
                  EXCEPT !.save = TRUE]
      [] k = "c" ->
            IF s.modelCursor + 1 \notin 1..Len(s.modelKeys) THEN Panic(s)
            ELSE
            LET key == s.modelKeys[s.modelCursor + 1] IN
            Ret([s EXCEPT !.selectedModel = key, !.config.ActiveModel = key,
                          !.currentMode = apiKeyInputMode])
      [] OTHER -> Ret(s)

-----------------------------------------------------------------------------
(* updateStyleSelectMode *)

\* updateStyleSelectMode moving down without looking at the end of the list
updateStyleSelectMode_NoGuard(s, k) ==
    CASE k \in {"up", "k"} ->
            Ret(IF s.styleThemeIndex > 0 THEN [s EXCEPT !.styleThemeIndex = @ - 1] ELSE s)
      [] k \in {"down", "j"} -> Ret([s EXCEPT !.styleThemeIndex = @ + 1])
      [] k = "esc" -> Ret([s EXCEPT !.currentMode = selectionMode])
      [] OTHER -> Ret(s)

updateStyleSelectMode(s, k) ==
    CASE k \in {"up", "k"} ->
            Ret(IF s.styleThemeIndex > 0 THEN [s EXCEPT !.styleThemeIndex = @ - 1] ELSE s)
      [] k \in {"down", "j"} ->
            Ret(IF s.styleThemeIndex < Len(styleThemes) - 1
                THEN [s EXCEPT !.styleThemeIndex = @ + 1] ELSE s)
      [] k = "enter" ->
            Ret([s EXCEPT !.styles = Theme(s), !.currentMode = selectionMode])
      [] k = "esc" -> Ret([s EXCEPT !.currentMode = selectionMode])
      [] OTHER -> Ret(s)

-----------------------------------------------------------------------------
(* updateAPIKeyInputMode *)

\* CharLimit of the three text inputs
KeyCharLimit == 1000
BaseCharLimit == 100
NameCharLimit == 100

\* textinput.Model.Update for the keys of the model: an input that is not
\* focused ignores the key; a rune is appended up to CharLimit, backspace
\* removes the last character
InputUpdate(in, k, limit) ==
    IF ~in.focus THEN in
    ELSE CASE KeyType(k) = "KeyRunes" ->
                IF Len(in.value) < limit THEN [in EXCEPT !.value = @ \o <<k>>] ELSE in
           [] KeyType(k) = "KeyBackspace" ->
                IF Len(in.value) > 0
                THEN [in EXCEPT !.value = SubSeq(@, 1, Len(@) - 1)] ELSE in
           [] OTHER -> in

Blur(in) == [in EXCEPT !.focus = FALSE]
Focus(in) == [in EXCEPT !.focus = TRUE]

\* updateAPIKeyInputMode saving whatever the save toggle says
updateAPIKeyInputMode_AlwaysSaves(s, k) ==
    LET t == KeyType(k)
        modelConfig == Lookup(s.config.Models, s.selectedModel)
        isLocalModel == modelConfig.Provider = ProviderLocal
        typedName == TrimSpace(s.modelNameInput.value)
    IN
    CASE t \in {"KeyCtrlC", "KeyEsc"} -> Quit(s)
      [] t = "KeyEnter" ->
            LET entry ==
                    IF isLocalModel
                    THEN LET baseURL == TrimSpace(s.apiBaseInput.value) IN
                         [Provider   |-> modelConfig.Provider,
                          ModelName  |-> IF typedName = <<>> THEN <<"llama3">>
                                         ELSE typedName,
                          APIKey     |-> <<>>,
                          APIBaseURL |-> IF baseURL = <<>>
                                         THEN <<"http://", "localhost:11434">>
                                         ELSE baseURL]
                    ELSE [Provider   |-> modelConfig.Provider,
                          ModelName  |->
                              IF typedName # <<>> THEN typedName
                              ELSE IF modelConfig.Provider = ProviderOpenAI
                                   THEN <<"gpt-3.5-turbo">>
                              ELSE IF modelConfig.Provider = ProviderAnthropic
                                   THEN <<"claude-3-sonnet-20240229">>
                              ELSE <<>>,
                          APIKey     |-> TrimSpace(s.apiKeyInput.value),
                          APIBaseURL |-> <<>>]
                s1 == [s EXCEPT
                        !.config.Models = MapSet(@, s.selectedModel, entry),
                        !.currentMode = selectionMode]
            IN [Ret(s1) EXCEPT !.save = TRUE]
      [] t \in {"KeyUp", "KeyDown"} ->
            LET f == (s.focusedInput + 1) % 3 IN
            Ret([s EXCEPT
                  !.focusedInput = f,
                  !.apiKeyInput = IF ~isLocalModel /\ f = 0 THEN Focus(@) ELSE Blur(@),
                  !.apiBaseInput = IF isLocalModel /\ f = 0 THEN Focus(@) ELSE Blur(@),
                  !.modelNameInput = IF f = 1 THEN Focus(@) ELSE Blur(@)])
      [] t = "KeySpace" ->
            Ret(IF s.focusedInput = 2 THEN [s EXCEPT !.saveConfig = ~@] ELSE s)
      [] OTHER ->
            IF s.focusedInput = 0 /\ isLocalModel
            THEN Ret([s EXCEPT !.apiBaseInput = InputUpdate(@, k, BaseCharLimit)])
            ELSE IF s.focusedInput = 0
            THEN Ret([s EXCEPT !.apiKeyInput = InputUpdate(@, k, KeyCharLimit)])
            ELSE IF s.focusedInput = 1
            THEN Ret([s EXCEPT !.modelNameInput = InputUpdate(@, k, NameCharLimit)])
            ELSE Ret(s)

updateAPIKeyInputMode(s, k) ==
    LET t == KeyType(k)
        modelConfig == Lookup(s.config.Models, s.selectedModel)
        isLocalModel == modelConfig.Provider = ProviderLocal
        typedName == TrimSpace(s.modelNameInput.value)
    IN
    CASE t \in {"KeyCtrlC", "KeyEsc"} -> Quit(s)
      [] t = "KeyEnter" ->
            LET entry ==
                    IF isLocalModel
                    THEN LET baseURL == TrimSpace(s.apiBaseInput.value) IN
                         [Provider   |-> modelConfig.Provider,
                          ModelName  |-> IF typedName = <<>> THEN <<"llama3">>
                                         ELSE typedName,
                          APIKey     |-> <<>>,
                          APIBaseURL |-> IF baseURL = <<>>
                                         THEN <<"http://", "localhost:11434">>
                                         ELSE baseURL]
                    ELSE [Provider   |-> modelConfig.Provider,
                          ModelName  |->
                              IF typedName # <<>> THEN typedName
                              ELSE IF modelConfig.Provider = ProviderOpenAI
                                   THEN <<"gpt-3.5-turbo">>
                              ELSE IF modelConfig.Provider = ProviderAnthropic
                                   THEN <<"claude-3-sonnet-20240229">>
                              ELSE <<>>,
                          APIKey     |-> TrimSpace(s.apiKeyInput.value),
                          APIBaseURL |-> <<>>]
                s1 == [s EXCEPT
                        !.config.Models = MapSet(@, s.selectedModel, entry),
                        !.currentMode = selectionMode]
            IN [Ret(s1) EXCEPT !.save = s.saveConfig]
      [] t \in {"KeyUp", "KeyDown"} ->
            LET f == (s.focusedInput + 1) % 3 IN
            Ret([s EXCEPT
                  !.focusedInput = f,
                  !.apiKeyInput = IF ~isLocalModel /\ f = 0 THEN Focus(@) ELSE Blur(@),
                  !.apiBaseInput = IF isLocalModel /\ f = 0 THEN Focus(@) ELSE Blur(@),
                  !.modelNameInput = IF f = 1 THEN Focus(@) ELSE Blur(@)])
      [] t = "KeySpace" ->
            Ret(IF s.focusedInput = 2 THEN [s EXCEPT !.saveConfig = ~@] ELSE s)
      [] OTHER ->
            IF s.focusedInput = 0 /\ isLocalModel
            THEN Ret([s EXCEPT !.apiBaseInput = InputUpdate(@, k, BaseCharLimit)])
            ELSE IF s.focusedInput = 0
            THEN Ret([s EXCEPT !.apiKeyInput = InputUpdate(@, k, KeyCharLimit)])
            ELSE IF s.focusedInput = 1
            THEN Ret([s EXCEPT !.modelNameInput = InputUpdate(@, k, NameCharLimit)])
            ELSE Ret(s)

-----------------------------------------------------------------------------
(* Update *)

\* margins and minimum sizes of the resize handler
marginWidth == 4
marginHeight == 8
minWidth == 40
minHeight == 10

\* the resize handler without its minimum sizes
WindowSize_NoMinimum(s, termWidth, termHeight) ==
    LET vp == [s.viewport EXCEPT
                 !.Width = termWidth - marginWidth,
                 !.Height = termHeight - marginHeight]
    IN Ret([s EXCEPT !.viewport =
                IF s.currentMode = displayMode
                THEN renderMarkdownToViewport(s.content, vp, Theme(s))
                ELSE vp])

WindowSize(s, termWidth, termHeight) ==
    LET vp == [s.viewport EXCEPT
                 !.Width = Max(minWidth, termWidth - marginWidth),
                 !.Height = Max(minHeight, termHeight - marginHeight)]
    IN Ret([s EXCEPT !.viewport =
                IF s.currentMode = displayMode
                THEN renderMarkdownToViewport(s.content, vp, Theme(s))
                ELSE vp])

\* the keys Update answers itself, before the handler of the current mode
Global(s, k) ==
    \/ k \in {"q", "~", "ctrl+t"}
    \/ k = "esc" /\ s.currentMode # selectionMode

\* Update whose escape also puts the document-type cursor back to the top
UpdateKey_EscResetsCursor(s, k) ==
    CASE k = "q" -> Quit(s)
      [] k = "esc" /\ s.currentMode # selectionMode ->
            Ret([s EXCEPT !.currentMode = selectionMode, !.cursor = 0,
                          !.inputString = <<>>])
      [] k = "~" -> Ret([s EXCEPT !.currentMode = modelSelectMode])
      [] k = "ctrl+t" -> Ret([s EXCEPT !.currentMode = styleSelectMode])
      [] OTHER ->
            CASE s.currentMode = selectionMode -> updateSelectionMode(s, k)
              [] s.currentMode = questionMode -> updateQuestionMode(s, k)
              [] s.currentMode = displayMode -> updateDisplayMode(s, k)
              [] s.currentMode = apiKeyInputMode -> updateAPIKeyInputMode(s, k)
              [] s.currentMode = modelSelectMode -> updateModelSelectMode(s, k)
              [] s.currentMode = styleSelectMode -> updateStyleSelectMode(s, k)
              [] OTHER -> Ret(s)

\* Update that lets the screens where text is typed have the shortcut keys
UpdateKey_TypingFirst(s, k) ==
    CASE k = "q" -> Quit(s)
      [] k = "esc" /\ s.currentMode # selectionMode ->
            Ret([s EXCEPT !.currentMode = selectionMode])
      [] k = "~" /\ s.currentMode \notin {questionMode, apiKeyInputMode} ->
            Ret([s EXCEPT !.currentMode = modelSelectMode])
      [] k = "ctrl+t" /\ s.currentMode \notin {questionMode, apiKeyInputMode} ->
            Ret([s EXCEPT !.currentMode = styleSelectMode])
      [] OTHER ->
            CASE s.currentMode = selectionMode -> updateSelectionMode(s, k)
              [] s.currentMode = questionMode -> updateQuestionMode(s, k)
              [] s.currentMode = displayMode -> updateDisplayMode(s, k)
              [] s.currentMode = apiKeyInputMode -> updateAPIKeyInputMode(s, k)
              [] s.currentMode = modelSelectMode -> updateModelSelectMode(s, k)
              [] s.currentMode = styleSelectMode -> updateStyleSelectMode(s, k)
              [] OTHER -> Ret(s)

UpdateKey(s, k) ==
    CASE k = "q" -> Quit(s)
      [] k = "esc" /\ s.currentMode # selectionMode ->
            Ret([s EXCEPT !.currentMode = selectionMode])
      [] k = "~" -> Ret([s EXCEPT !.currentMode = modelSelectMode])
      [] k = "ctrl+t" -> Ret([s EXCEPT !.currentMode = styleSelectMode])
      [] OTHER ->
            CASE s.currentMode = selectionMode -> updateSelectionMode(s, k)
              [] s.currentMode = questionMode -> updateQuestionMode(s, k)
              [] s.currentMode = displayMode -> updateDisplayMode(s, k)
              [] s.currentMode = apiKeyInputMode -> updateAPIKeyInputMode(s, k)
              [] s.currentMode = modelSelectMode -> updateModelSelectMode(s, k)
              [] s.currentMode = styleSelectMode -> updateStyleSelectMode(s, k)
              [] OTHER -> Ret(s)

\* View: viewAPIKeyInputMode slices the first letter off the provider name of
\* a hosted entry, viewQuestionMode indexes the current question
ViewPanics(s) ==
    \/ /\ s.currentMode = apiKeyInputMode
       /\ Lookup(s.config.Models, s.selectedModel).Provider = ""
    \/ /\ s.currentMode = questionMode
       /\ s.currentQuestion + 1 \notin 1..Len(s.currentForm.questions)

-----------------------------------------------------------------------------
(* Backend clients *)

\* strings.Contains / HasSuffix / TrimSuffix on token sequences
Contains(s, sub) ==
    \E i \in 1..(Len(s) - Len(sub) + 1) : SubSeq(s, i, i + Len(sub) - 1) = sub

HasSuffix(s, suf) ==
    Len(s) >= Len(suf) /\ SubSeq(s, Len(s) - Len(suf) + 1, Len(s)) = suf

TrimSuffix(s, suf) ==
    IF HasSuffix(s, suf) THEN SubSeq(s, 1, Len(s) - Len(suf)) ELSE s

Ok(text) == [status |-> "ok", text |-> text]
Err(text) == [status |-> "err", text |-> text]
Crash == [status |-> "panic", text |-> <<>>]
NoCall == [status |-> "none", text |-> <<>>]

SupportedProviders == {ProviderOpenAI, ProviderAnthropic, ProviderLocal}

\* a factory that asks the self-hosted family for a credential and not for
\* an address
CreateLLMClient_LocalNeedsKey(config) ==
    CASE config.Provider \in SupportedProviders ->
            IF config.APIKey = <<>>
            THEN [client |-> "nil", err |-> <<"API key is required">>]
            ELSE [client |->
                    CASE config.Provider = ProviderOpenAI -> "OpenAIClient"
                      [] config.Provider = ProviderAnthropic -> "ClaudeClient"
                      [] OTHER -> "LocalLLMClient",
                  err |-> <<>>]
      [] OTHER ->
            [client |-> "nil", err |-> <<"unsupported provider: ", config.Provider>>]

\* CreateLLMClient: the client variant, or an error and no client
CreateLLMClient(config) ==
    CASE config.Provider = ProviderOpenAI ->
            IF config.APIKey = <<>>
            THEN [client |-> "nil", err |-> <<"OpenAI API key is required">>]
            ELSE [client |-> "OpenAIClient", err |-> <<>>]
      [] config.Provider = ProviderAnthropic ->
            IF config.APIKey = <<>>
            THEN [client |-> "nil", err |-> <<"Claude API key is required">>]
            ELSE [client |-> "ClaudeClient", err |-> <<>>]
      [] config.Provider = ProviderLocal ->
            IF config.APIBaseURL = <<>>
            THEN [client |-> "nil",
                  err |-> <<"API base URL is required for local models">>]
            ELSE [client |-> "LocalLLMClient", err |-> <<>>]
      [] OTHER ->
            [client |-> "nil", err |-> <<"unsupported provider: ", config.Provider>>]

\* the model name NewLocalLLMClient is given
LocalModelName(config) ==
    IF config.ModelName = <<>> THEN <<"llama3">> ELSE config.ModelName

\* What the provider's side of one call can be: a reply carrying text, a
\* transport failure, a non-success status, a body that does not parse, a
\* well-formed reply without any completion, or the provider's not-found
\* error about the model
Reply(kind, text) == [kind |-> kind, text |-> text]

\* the error the client library reports for a failed call
LibraryError(reply) ==
    CASE reply.kind = "network"   -> <<"connection refused">>
      [] reply.kind = "status"    -> <<"500 Internal Server Error">>
      [] reply.kind = "malformed" -> <<"invalid character in response body">>
      [] reply.kind = "notfound"  -> <<"404 Not Found: model not found">>
      [] reply.kind = "gone"      -> <<"404 Not Found: no such endpoint">>
      [] reply.kind = "invalid"   -> <<"400 Bad Request: model is required">>
      [] OTHER                    -> <<>>

\* OpenAIClient.Complete
OpenAIComplete(model, reply) ==
    CASE reply.kind = "text"  -> Ok(reply.text)
      [] reply.kind = "empty" -> Crash
      [] OTHER                -> Err(LibraryError(reply))

\* the replies in which errors.As finds an *anthropic.APIError, and the Type
\* and Message of that error
APIErrorKinds == {"status", "notfound", "gone", "invalid"}

APIError(reply) ==
    CASE reply.kind = "notfound" ->
            [Type |-> "not_found_error", Message |-> <<"model", ": no such model">>]
      [] reply.kind = "gone" ->
            [Type |-> "not_found_error", Message |-> <<"no such endpoint">>]
      [] reply.kind = "invalid" ->
            [Type |-> "invalid_request_error",
             Message |-> <<"model", ": field required">>]
      [] OTHER ->
            [Type |-> "api_error", Message |-> <<"Internal server error">>]

\* the guidance ClaudeClient.Complete returns for a model that was not found
ModelNotFound(model) ==
    <<"Claude API error: Model '">> \o model
    \o <<"' not found. Try using ", "claude-3-opus-20240229", ", ",
         "claude-3-sonnet-20240229", ", or ", "claude-3-haiku-20240307">>

\* a client that takes every not-found error for one about the model
ClaudeComplete_AnyNotFound(model, reply) ==
    CASE reply.kind = "text" -> Ok(reply.text)
      [] reply.kind = "empty" -> Err(<<"Claude returned no text content">>)
      [] reply.kind \in APIErrorKinds ->
            IF APIError(reply).Type = "not_found_error"
            THEN Err(ModelNotFound(model))
            ELSE Err(<<"Claude API error (type: ", APIError(reply).Type, "): ">>
                     \o APIError(reply).Message)
      [] OTHER -> Err(<<"Claude API error: ">> \o LibraryError(reply))

\* ClaudeClient.Complete
ClaudeComplete(model, reply) ==
    CASE reply.kind = "text" -> Ok(reply.text)
      [] reply.kind = "empty" -> Err(<<"Claude returned no text content">>)
      [] reply.kind \in APIErrorKinds ->
            IF /\ APIError(reply).Type = "not_found_error"
               /\ Contains(APIError(reply).Message, <<"model">>)
            THEN Err(ModelNotFound(model))
            ELSE Err(<<"Claude API error (type: ", APIError(reply).Type, "): ">>
                     \o APIError(reply).Message)
      [] OTHER -> Err(<<"Claude API error: ">> \o LibraryError(reply))

\* LocalLLMClient.Complete: the endpoint posted to
LocalEndpoint(url) ==
    LET baseURL == TrimSuffix(url, <<"/">>) IN
    IF Contains(baseURL, <<"localhost:11434">>)
       \/ Contains(baseURL, <<"127.0.0.1:11434">>)
    THEN baseURL \o <<"/api", "/chat">>
    ELSE IF Contains(baseURL, <<"/v1", "/chat", "/completions">>) THEN baseURL
    ELSE IF Contains(baseURL, <<"/chat", "/completions">>) THEN baseURL
    ELSE IF HasSuffix(baseURL, <<"/v1">>) THEN baseURL \o <<"/chat", "/completions">>
    ELSE baseURL \o <<"/v1", "/chat", "/completions">>

\* LocalLLMClient.Complete: the native request/response format is used
LocalNative(url) == Contains(LocalEndpoint(url), <<"/api", "/chat">>)

\* LocalLLMClient.Complete: the URLs the request can go to. The native request
\* is made with http.NewRequestWithContext on the endpoint itself. The
\* compatible request is made by the client library: the endpoint is handed to
\* it as its base URL (option.WithBaseURL) and Chat.Completions.New resolves
\* the library's own relative path chat/completions against that base, below
\* the base's path or in place of its last segment, as the library's version
\* has it
LocalRequestURLs(url) ==
    LET baseURL == LocalEndpoint(url) IN
    IF LocalNative(url)
    THEN { baseURL }
    ELSE { baseURL \o <<"/chat", "/completions">>,
           SubSeq(baseURL, 1, Len(baseURL) - 1) \o <<"/chat", "/completions">> }

LocalComplete(url, model, reply) ==
    IF LocalNative(url)
    THEN CASE reply.kind \in {"text", "empty"} -> Ok(reply.text)
           [] reply.kind = "network" ->
                Err(<<"Local LLM API error: ">> \o LibraryError(reply))
           [] reply.kind = "malformed" ->
                Err(<<"failed to parse Ollama response: ">> \o LibraryError(reply))
           [] OTHER ->
                Err(<<"Ollama API returned ">> \o LibraryError(reply))
    ELSE CASE reply.kind = "text" -> Ok(reply.text)
           [] reply.kind = "empty" -> Err(<<"No content returned from the LLM">>)
           [] OTHER -> Err(<<"Local LLM API error: ">> \o LibraryError(reply))

\* processFormWithLLM
processFormWithLLM(modelConfig, reply) ==
    LET c == CreateLLMClient(modelConfig) IN
    CASE c.client = "nil" -> Err(<<"failed to create LLM client: ">> \o c.err)
      [] c.client = "OpenAIClient" -> OpenAIComplete(modelConfig.ModelName, reply)
      [] c.client = "ClaudeClient" -> ClaudeComplete(modelConfig.ModelName, reply)
      [] c.client = "LocalLLMClient" ->
            LocalComplete(modelConfig.APIBaseURL, LocalModelName(modelConfig), reply)

-----------------------------------------------------------------------------
(* handleFormCompletion, up to the launch of the request *)

\* Build and render the document; route to the configuration screen when the
\* active entry lacks its credential or address; otherwise show the
\* placeholder and ask for the request to be launched
\* handleFormCompletion without the check of the active entry
handleFormCompletion_NoCheck(s) ==
    LET md == buildSelectedMarkdown(s)
        theme == Theme(s)
        s1 == [s EXCEPT !.viewport = renderMarkdownToViewport(md, @, theme),
                        !.content = md]
    IN [m |-> [s1 EXCEPT !.viewport =
                    renderMarkdownToViewport(ProcessingMsg(s1.config.ActiveModel),
                                             @, theme)],
        launch |-> TRUE]

handleFormCompletion(s) ==
    LET md == buildSelectedMarkdown(s)
        theme == Theme(s)
        s1 == [s EXCEPT !.viewport = renderMarkdownToViewport(md, @, theme),
                        !.content = md]
        activeModelConfig == Lookup(s1.config.Models, s1.config.ActiveModel)
    IN
    IF NeedsConfiguration(activeModelConfig)
    THEN [m |-> [s1 EXCEPT !.currentMode = apiKeyInputMode], launch |-> FALSE]
    ELSE [m |-> [s1 EXCEPT !.viewport =
                    renderMarkdownToViewport(ProcessingMsg(s1.config.ActiveModel),
                                             @, theme)],
          launch |-> TRUE]

\* makeLLMRequest appending the response without its heading and leaving the
\* raw output as it was
makeLLMRequestStore_NoHeading(s, resp) ==
    LET appendedContent == s.content \o resp
    IN [s EXCEPT !.viewport = renderMarkdownToViewport(appendedContent, @, Theme(s)),
                 !.content = appendedContent]

\* makeLLMRequest after a successful call: the fields it writes through &m
makeLLMRequestStore(s, resp) ==
    LET md == s.content
        appendedContent == md \o TicketSummary(resp)
    IN [s EXCEPT !.gptRawOutput = resp,
                 !.viewport = renderMarkdownToViewport(appendedContent, @, Theme(s)),
                 !.content = appendedContent]

\* the error makeLLMRequest returns for a failed call
makeLLMRequestError(err) == <<"LLM API error: ">> \o err

\* stripansi.Strip
AnsiTokens == {"\\x1b[0m", "\\x1b[1m"}
StripAnsi(text) == SelectSeq(text, LAMBDA t : t \notin AnsiTokens)

-----------------------------------------------------------------------------
(* Environment: what is loaded, typed and answered *)

WithDefaults(active, models) == [ActiveModel |-> active, Models |-> models]

ConfiguredModels ==
    [DefaultModelConfigs EXCEPT !["openai"].APIKey = <<"sk-openai">>,
                                !["anthropic"].APIKey = <<"sk-ant">>]

\* what loadConfig can return: no file; a file written when a hosted backend
\* was picked and the session ended before its key was entered; a file with
\* every backend configured and one of them active
LoadedConfigs ==
    { WithDefaults("", DefaultModelConfigs),
      WithDefaults("openai", DefaultModelConfigs) }
    \cup { WithDefaults(k, ConfiguredModels) : k \in DOMAIN ConfiguredModels }

\* a configuration file to which the user added an entry of their own, with a
\* provider name CreateLLMClient does not know
CustomConfig ==
    WithDefaults("custom",
        MapSet(ConfiguredModels, "custom",
               [Provider |-> "gemini", ModelName |-> <<"gemini-pro">>,
                APIKey |-> <<"sk-custom">>, APIBaseURL |-> <<>>]))

Responses == { <<"Summary of the ticket.">> }

Replies ==
    { Reply("text", r) : r \in Responses }
    \cup { Reply(kind, <<>>) : kind \in {"network", "status", "malformed",
                                         "empty", "notfound"} }

TermSizes == { <<30, 12>>, <<100, 30>> }

NoEvent == [key |-> "", mode |-> "", input |-> <<>>]

\* the typed values stay within the bounds of the model
WithinBounds(s) ==
    /\ Len(s.inputString) <= MaxInput
    /\ Len(s.apiKeyInput.value) <= MaxField
    /\ Len(s.apiBaseInput.value) <= MaxField
    /\ Len(s.modelNameInput.value) <= MaxField

-----------------------------------------------------------------------------
(* The event loop *)

InitWith(configs) ==
    /\ \E config \in configs :
          /\ m = initialModel(config)
          /\ disk = config
    /\ loop = "idle"
    /\ hpc = "none"
    /\ rpc = "none"
    /\ spc = "none"
    /\ done = <<>>
    /\ cancelled = FALSE
    /\ lingering = 0
    /\ inflight = 0
    /\ call = NoCall
    /\ clipboard = <<>>
    /\ ev = NoEvent

\* after Update returns, the loop calls View on the model it got
AfterUpdate(s) == IF ViewPanics(s) THEN "crashed" ELSE "idle"

\* the transition launches the request goroutine and goes on (lines 1404-1417)
Launch(s) ==
    /\ lingering < MaxLingering
    /\ m' = s
    /\ loop' = "handling"
    /\ hpc' = "spawn"
    /\ rpc' = "call"
    /\ spc' = "none"
    /\ done' = <<>>
    /\ cancelled' = FALSE
    /\ inflight' = inflight + 1
    /\ call' = NoCall
    /\ UNCHANGED <<lingering, disk, clipboard>>

\* an event loop that a failed save brings down
Deliver_FailedSaveEnds(k) ==
    /\ loop = "idle"
    /\ ev' = [key |-> k, mode |-> m.currentMode, input |-> m.inputString]
    /\ LET r == UpdateKey(m, k) IN
       /\ WithinBounds(r.m)
       /\ CASE r.cmd = "quit" ->
                 /\ m' = r.m
                 /\ loop' = "quit"
                 /\ call' = NoCall
                 /\ UNCHANGED <<hpc, rpc, spc, done, cancelled, lingering,
                                inflight, disk, clipboard>>
            [] r.cmd = "panic" ->
                 /\ m' = r.m
                 /\ loop' = "crashed"
                 /\ call' = NoCall
                 /\ UNCHANGED <<hpc, rpc, spc, done, cancelled, lingering,
                                inflight, disk, clipboard>>
            [] r.cmd = "nil" /\ r.complete ->
                 LET h == handleFormCompletion(r.m) IN
                 IF h.launch
                 THEN Launch(h.m)
                 ELSE /\ m' = h.m
                      /\ loop' = AfterUpdate(h.m)
                      /\ call' = NoCall
                      /\ UNCHANGED <<hpc, rpc, spc, done, cancelled, lingering,
                                     inflight, disk, clipboard>>
            [] OTHER ->
                 /\ m' = r.m
                 /\ disk' \in (IF r.save THEN {disk, r.m.config} ELSE {disk})
                 /\ loop' = IF r.save /\ disk' # r.m.config
                            THEN "crashed" ELSE AfterUpdate(r.m)
                 /\ clipboard' \in (IF r.copy
                                    THEN {clipboard, StripAnsi(r.m.gptRawOutput)}
                                    ELSE {clipboard})
                 /\ call' = NoCall
                 /\ UNCHANGED <<hpc, rpc, spc, done, cancelled, lingering,
                                inflight>>

\* one key message taken from the queue and handled to completion, or up to
\* the point where handleFormCompletion has launched its request
Deliver(k) ==
    /\ loop = "idle"
    /\ ev' = [key |-> k, mode |-> m.currentMode, input |-> m.inputString]
    /\ LET r == UpdateKey(m, k) IN
       /\ WithinBounds(r.m)
       /\ CASE r.cmd = "quit" ->
                 /\ m' = r.m
                 /\ loop' = "quit"
                 /\ call' = NoCall
                 /\ UNCHANGED <<hpc, rpc, spc, done, cancelled, lingering,
                                inflight, disk, clipboard>>
            [] r.cmd = "panic" ->
                 /\ m' = r.m
                 /\ loop' = "crashed"
                 /\ call' = NoCall
                 /\ UNCHANGED <<hpc, rpc, spc, done, cancelled, lingering,
                                inflight, disk, clipboard>>
            [] r.cmd = "nil" /\ r.complete ->
                 LET h == handleFormCompletion(r.m) IN
                 IF h.launch
                 THEN Launch(h.m)
                 ELSE /\ m' = h.m
                      /\ loop' = AfterUpdate(h.m)
                      /\ call' = NoCall
                      /\ UNCHANGED <<hpc, rpc, spc, done, cancelled, lingering,
                                     inflight, disk, clipboard>>
            [] OTHER ->
                 /\ m' = r.m
                 /\ loop' = AfterUpdate(r.m)
                 /\ disk' \in (IF r.save THEN {disk, r.m.config} ELSE {disk})
                 /\ clipboard' \in (IF r.copy
                                    THEN {clipboard, StripAnsi(r.m.gptRawOutput)}
                                    ELSE {clipboard})
                 /\ call' = NoCall
                 /\ UNCHANGED <<hpc, rpc, spc, done, cancelled, lingering,
                                inflight>>

\* a key the current mode's handler gets
KeyIn(mode, K) ==
    \E k \in K : m.currentMode = mode /\ ~Global(m, k) /\ Deliver(k)

\* a key Update answers itself
GlobalKey(K) == \E k \in K : Global(m, k) /\ Deliver(k)

\* a tea.WindowSizeMsg
Resize(S) ==
    \E sz \in S :
        /\ loop = "idle"
        /\ ev' = [key |-> "resize", mode |-> m.currentMode,
                   input |-> m.inputString]
        /\ m' = WindowSize(m, sz[1], sz[2]).m
        /\ loop' = AfterUpdate(m')
        /\ call' = NoCall
        /\ UNCHANGED <<hpc, rpc, spc, done, cancelled, lingering, inflight, disk,
                       clipboard>>

-----------------------------------------------------------------------------
(* The request in flight: handleFormCompletion lines 1413-1454 and the two
   goroutines it starts *)

\* a receive that does not wait for the request goroutine
DoneReady_NoWait == TRUE

\* a receive that waits for a second message on the channel
DoneReady_SecondMessage == Len(done) > 1

\* the transition may take the outcome from the channel
DoneReady == Len(done) > 0

\* request goroutine: the backend call returns
RequestCall(replies) ==
    /\ loop = "handling" /\ rpc = "call"
    /\ \E reply \in replies :
          LET res == processFormWithLLM(
                        Lookup(m.config.Models, m.config.ActiveModel), reply)
          IN /\ call' = res
             /\ CASE res.status = "panic" ->
                       /\ loop' = "crashed" /\ rpc' = "exit" /\ m' = m
                  [] res.status = "err" ->
                       /\ loop' = loop /\ rpc' = "send" /\ m' = m
                  [] OTHER ->
                       /\ loop' = loop /\ rpc' = "send"
                       /\ m' = makeLLMRequestStore(m, res.text)
    /\ UNCHANGED <<hpc, spc, done, cancelled, lingering, inflight, disk,
                   clipboard, ev>>

\* request goroutine: done <- err
RequestSend ==
    /\ loop = "handling" /\ rpc = "send"
    /\ done' = Append(done, IF call.status = "err"
                            THEN makeLLMRequestError(call.text) ELSE <<>>)
    /\ rpc' = "exit"
    /\ UNCHANGED <<m, loop, hpc, spc, cancelled, lingering, inflight, call, disk,
                   clipboard, ev>>

\* the transition switching to the result screen before it waits
SpawnSpinner_SetsMode ==
    /\ loop = "handling" /\ hpc = "spawn"
    /\ spc' = "start"
    /\ hpc' = "wait"
    /\ m' = [m EXCEPT !.currentMode = displayMode]
    /\ UNCHANGED <<loop, rpc, done, cancelled, lingering, inflight, call, disk,
                   clipboard, ev>>

\* cancelSpinner() called where it should have been deferred
SpawnSpinner_NoDefer ==
    /\ loop = "handling" /\ hpc = "spawn"
    /\ spc' = "start"
    /\ hpc' = "wait"
    /\ cancelled' = TRUE
    /\ UNCHANGED <<m, loop, rpc, done, lingering, inflight, call, disk,
                   clipboard, ev>>

\* transition: spinnerCtx is made and the spinner goroutine started
SpawnSpinner ==
    /\ loop = "handling" /\ hpc = "spawn"
    /\ spc' = "start"
    /\ hpc' = "wait"
    /\ UNCHANGED <<m, loop, rpc, done, cancelled, lingering, inflight, call, disk,
                   clipboard, ev>>

\* the transition taking the outcome and ignoring the error
AwaitDone_DropsError ==
    /\ loop = "handling" /\ hpc = "wait"
    /\ DoneReady
    /\ done' = IF Len(done) > 0 THEN Tail(done) ELSE done
    /\ inflight' = IF Len(done) > 0 THEN inflight - 1 ELSE inflight
    /\ hpc' = "cancel"
    /\ UNCHANGED <<m, loop, rpc, spc, cancelled, lingering, call, disk, clipboard, ev>>

\* transition: err := <-done, and the error document on failure
AwaitDone ==
    /\ loop = "handling" /\ hpc = "wait"
    /\ DoneReady
    /\ LET err == IF Len(done) > 0 THEN Head(done) ELSE <<>> IN
       m' = IF err # <<>>
            THEN [m EXCEPT !.viewport =
                    renderMarkdownToViewport(ErrorMsg(m.config.ActiveModel, err),
                                             @, Theme(m))]
            ELSE m
    /\ done' = IF Len(done) > 0 THEN Tail(done) ELSE done
    /\ inflight' = IF Len(done) > 0 THEN inflight - 1 ELSE inflight
    /\ hpc' = "cancel"
    /\ UNCHANGED <<loop, rpc, spc, cancelled, lingering, call, disk, clipboard, ev>>

\* transition: cancelSpinner()
CancelSpinner ==
    /\ loop = "handling" /\ hpc = "cancel"
    /\ cancelled' = TRUE
    /\ hpc' = "return"
    /\ UNCHANGED <<m, loop, rpc, spc, done, lingering, inflight, call, disk,
                   clipboard, ev>>

\* transition: m.currentMode = displayMode; return m, and the deferred
\* cancelSpinner() runs
Return ==
    /\ loop = "handling" /\ hpc = "return"
    /\ m' = [m EXCEPT !.currentMode = displayMode]
    /\ loop' = AfterUpdate(m')
    /\ hpc' = "none"
    /\ rpc' = "none"
    /\ spc' = "none"
    /\ lingering' = IF spc = "exited" THEN lingering ELSE lingering + 1
    /\ cancelled' = TRUE
    /\ UNCHANGED <<done, inflight, call, disk, clipboard, ev>>

\* spinner goroutine: Run enters the action, which blocks on spinnerCtx.Done()
SpinnerRun ==
    /\ loop = "handling" /\ spc = "start"
    /\ spc' = "running"
    /\ UNCHANGED <<m, loop, hpc, rpc, done, cancelled, lingering, inflight, call,
                   disk, clipboard, ev>>

\* spinner goroutine: the context is cancelled and Run returns
SpinnerExit ==
    /\ loop = "handling" /\ spc = "running" /\ cancelled
    /\ spc' = "exited"
    /\ UNCHANGED <<m, loop, hpc, rpc, done, cancelled, lingering, inflight, call,
                   disk, clipboard, ev>>

\* a spinner goroutine of a returned transition winds down
LingeringExit ==
    /\ loop \in {"idle", "handling"} /\ lingering > 0
    /\ lingering' = lingering - 1
    /\ UNCHANGED <<m, loop, hpc, rpc, spc, done, cancelled, inflight, call, disk,
                   clipboard, ev>>

InFlight(replies) ==
    \/ RequestCall(replies)
    \/ RequestSend
    \/ SpawnSpinner
    \/ AwaitDone
    \/ CancelSpinner
    \/ Return
    \/ SpinnerRun
    \/ SpinnerExit
    \/ LingeringExit

-----------------------------------------------------------------------------
(* SpecSubmit: one questionnaire, typed and submitted, from every loaded
   configuration that names an active backend *)

InitSubmit == InitWith({c \in LoadedConfigs : c.ActiveModel # ""} \cup {CustomConfig})

SubmitQuit == GlobalKey({"q"})
SubmitSelection == KeyIn(selectionMode, {"up", "down", "enter"})
SubmitQuestion == KeyIn(questionMode, {"enter", "ctrl+s", "a"})
SubmitInFlight == InFlight(Replies)

NextSubmit ==
    \/ SubmitQuit
    \/ SubmitSelection
    \/ SubmitQuestion
    \/ SubmitInFlight

SpecSubmit == InitSubmit /\ [][NextSubmit]_vars

-----------------------------------------------------------------------------
(* SpecRepeat: questionnaires submitted one after another, abandoned and
   resumed, from every loaded configuration *)

InitRepeat == InitWith(LoadedConfigs)

RepeatGlobal == GlobalKey({"q", "esc", "~"})
RepeatModelSelect == KeyIn(modelSelectMode, {"down", "enter", "c"})
RepeatSelection == KeyIn(selectionMode, {"enter", " "})
RepeatQuestion == KeyIn(questionMode, {"enter", "ctrl+s"})
RepeatInFlight == InFlight(Replies)

NextRepeat ==
    \/ RepeatGlobal
    \/ RepeatSelection
    \/ RepeatQuestion
    \/ RepeatModelSelect
    \/ RepeatInFlight

SpecRepeat == InitRepeat /\ [][NextRepeat]_vars

-----------------------------------------------------------------------------
(* SpecScroll: one submitted questionnaire read on the result screen, with
   the terminal resized along the way *)

ScrollReplies == { r \in Replies : r.kind \in {"text", "network"} }

InitScroll == InitWith({WithDefaults("ollama", ConfiguredModels)})

ScrollQuit == GlobalKey({"q"})
ScrollSelection == KeyIn(selectionMode, {"down", "enter"})
ScrollQuestion == KeyIn(questionMode, {"ctrl+s"})
ScrollDisplay ==
    KeyIn(displayMode, {"up", "down", "pgup", "pgdown", "g", "G", "ctrl+y", "x"})
ScrollResize == Resize(TermSizes)
ScrollInFlight == InFlight(ScrollReplies)

NextScroll ==
    \/ ScrollQuit
    \/ ScrollSelection
    \/ ScrollQuestion
    \/ ScrollDisplay
    \/ ScrollResize
    \/ ScrollInFlight

SpecScroll == InitScroll /\ [][NextScroll]_vars

-----------------------------------------------------------------------------
(* Answering: typing, confirming and skipping the answers of a document
   type *)

AnswerReplies == { r \in Replies : r.kind \in {"text", "network"} }

InitAnswer == InitWith({WithDefaults("ollama", ConfiguredModels)})

NextAnswer ==
    \/ GlobalKey({"q"})
    \/ KeyIn(selectionMode, {"down", "enter"})
    \/ KeyIn(questionMode, {"a", " ", "backspace", "enter", "ctrl+s"})
    \/ InFlight(AnswerReplies)

SpecAnswer == InitAnswer /\ [][NextAnswer]_vars

-----------------------------------------------------------------------------
(* Moving between the screens: the global keys on every screen, with the
   forms revisited *)

InitScreens ==
    InitWith({WithDefaults("ollama", ConfiguredModels),
              WithDefaults("openai", DefaultModelConfigs)})

NextScreens ==
    \/ GlobalKey({"q", "esc", "~", "ctrl+t"})
    \/ KeyIn(selectionMode, {"down", "enter"})
    \/ KeyIn(questionMode, {"a", "ctrl+s"})
    \/ KeyIn(displayMode, {"G"})
    \/ InFlight(AnswerReplies)

SpecScreens == InitScreens /\ [][NextScreens]_vars

-----------------------------------------------------------------------------
(* Resizing the terminal on every screen *)

InitResize ==
    InitWith({WithDefaults("ollama", ConfiguredModels),
              WithDefaults("openai", DefaultModelConfigs)})

NextResize ==
    \/ GlobalKey({"q", "~", "ctrl+t"})
    \/ KeyIn(selectionMode, {"down", "enter"})
    \/ KeyIn(questionMode, {"a", "ctrl+s"})
    \/ KeyIn(displayMode, {"down"})
    \/ Resize(TermSizes)
    \/ InFlight(AnswerReplies)

SpecResize == InitResize /\ [][NextResize]_vars

-----------------------------------------------------------------------------
(* The three lists: the cursors of the document types, the backends and the
   themes *)

InitCursors == InitWith(LoadedConfigs)

NextCursors ==
    \/ GlobalKey({"q", "esc", "~", "ctrl+t"})
    \/ KeyIn(selectionMode, {"up", "down", "k", "j"})
    \/ KeyIn(modelSelectMode, {"up", "down", "k", "j"})
    \/ KeyIn(styleSelectMode, {"up", "down", "k", "j", "enter"})

SpecCursors == InitCursors /\ [][NextCursors]_vars

-----------------------------------------------------------------------------
(* Picking and configuring a backend *)

\* a configuration file whose self-hosted entry was written without an address
NoAddressConfig ==
    WithDefaults("openai",
        [ConfiguredModels EXCEPT !["ollama"].APIBaseURL = <<>>])

InitBackend == InitWith(LoadedConfigs \cup {NoAddressConfig})

NextBackend ==
    \/ GlobalKey({"q", "~"})
    \/ KeyIn(modelSelectMode, {"up", "down", "enter", " ", "c"})

SpecBackend == InitBackend /\ [][NextBackend]_vars

-----------------------------------------------------------------------------
(* Filling in and confirming the fields of a backend *)

InitConfigure == InitWith({WithDefaults("ollama", ConfiguredModels)})

NextConfigure ==
    \/ GlobalKey({"q", "~"})
    \/ KeyIn(modelSelectMode, {"down", "enter", "c"})
    \/ KeyIn(apiKeyInputMode, {"a", "up", " ", "enter"})

SpecConfigure == InitConfigure /\ [][NextConfigure]_vars

-----------------------------------------------------------------------------
(* SpecEndpoints: one questionnaire skipped through and submitted to the
   self-hosted backend, from configuration files that differ in the base
   address of that backend *)

LocalHosts == { <<"http://", "localhost:11434">>, <<"http://", "127.0.0.1:11434">>,
                <<"http://", "example.com:8000">> }

LocalPaths == { <<>>, <<"/">>, <<"/v1">>, <<"/v1", "/chat", "/completions">>,
                <<"/chat", "/completions">>, <<"/api", "/chat">> }

LocalAddresses == { h \o p : h \in LocalHosts, p \in LocalPaths }

AddressConfig(url) ==
    WithDefaults("ollama", [ConfiguredModels EXCEPT !["ollama"].APIBaseURL = url])

InitEndpoints == InitWith({ AddressConfig(url) : url \in LocalAddresses })

NextEndpoints ==
    \/ KeyIn(selectionMode, {"enter"})
    \/ KeyIn(questionMode, {"ctrl+s"})
    \/ InFlight(Replies)

SpecEndpoints == InitEndpoints /\ [][NextEndpoints]_vars

-----------------------------------------------------------------------------
(* SpecFactory: processFormWithLLM applied to every kind of configuration
   entry, also to those the session never submits with *)

FactoryEntries ==
    [ Provider : SupportedProviders \cup {"gemini", ""},
      ModelName : { <<>>, <<"some-model">> },
      APIKey : { <<>>, <<"sk-key">> },
      APIBaseURL : { <<>>, <<"http://", "localhost:11434">>,
                     <<"http://", "example.com:8000">> } ]

InitFactory ==
    InitWith({ WithDefaults("probe", MapSet(DefaultModelConfigs, "probe", entry)) :
                 entry \in FactoryEntries })

\* processFormWithLLM called with the active entry
ProcessForm(replies) ==
    /\ loop = "idle"
    /\ \E reply \in replies :
          call' = processFormWithLLM(
                     Lookup(m.config.Models, m.config.ActiveModel), reply)
    /\ UNCHANGED <<m, loop, hpc, rpc, spc, done, cancelled, lingering, inflight,
                   disk, clipboard, ev>>

NextFactory == ProcessForm(Replies)

SpecFactory == InitFactory /\ [][NextFactory]_vars

-----------------------------------------------------------------------------
(* SpecClaude: one questionnaire skipped through and submitted to the
   Hosted-B backend, which answers with text or with any of its errors *)

ClaudeReplies == Replies \cup { Reply("gone", <<>>), Reply("invalid", <<>>) }

InitClaude == InitWith({WithDefaults("anthropic", ConfiguredModels)})

NextClaude ==
    \/ KeyIn(selectionMode, {"down", "enter"})
    \/ KeyIn(questionMode, {"ctrl+s"})
    \/ InFlight(ClaudeReplies)

SpecClaude == InitClaude /\ [][NextClaude]_vars

-----------------------------------------------------------------------------
(* SpecCompletion: questionnaires skipped through and submitted one after the
   other, with every backend and every kind of reply; SpecCompletionFair adds
   the Go scheduler's fairness: a goroutine that can take its next step takes
   it. Nothing makes the backend call return or the user press a key. *)

InitCompletion == InitSubmit

NextCompletion ==
    \/ GlobalKey({"q", "esc"})
    \/ KeyIn(selectionMode, {"enter"})
    \/ KeyIn(questionMode, {"ctrl+s"})
    \/ InFlight(Replies)

SpecCompletion == InitCompletion /\ [][NextCompletion]_vars

SpecCompletionFair ==
    /\ SpecCompletion
    /\ WF_vars(RequestSend)
    /\ WF_vars(SpawnSpinner)
    /\ WF_vars(AwaitDone)
    /\ WF_vars(CancelSpinner)
    /\ WF_vars(Return)
    /\ WF_vars(SpinnerRun)
    /\ WF_vars(SpinnerExit)
    /\ WF_vars(LingeringExit)

-----------------------------------------------------------------------------
(* SpecRevisit: ShowResult visited, left with escape and visited again after
   another questionnaire, with the top gesture pressed in it *)

InitRevisit == InitWith({WithDefaults("ollama", ConfiguredModels)})

NextRevisit ==
    \/ GlobalKey({"q", "esc"})
    \/ KeyIn(selectionMode, {"down", "enter"})
    \/ KeyIn(questionMode, {"ctrl+s"})
    \/ KeyIn(displayMode, {"g", "down"})
    \/ InFlight(AnswerReplies)

SpecRevisit == InitRevisit /\ [][NextRevisit]_vars

-----------------------------------------------------------------------------
(* SpecShare: the backends configured one after the other, starting from the
   first one of PickBackend *)

InitShare == InitWith({WithDefaults("anthropic", ConfiguredModels)})

NextShare ==
    \/ GlobalKey({"q", "~"})
    \/ KeyIn(modelSelectMode, {"down", "c"})
    \/ KeyIn(apiKeyInputMode, {"a", "up", "enter"})

SpecShare == InitShare /\ [][NextShare]_vars

-----------------------------------------------------------------------------
(* Claims *)

ConfirmKeys == {"enter", "ctrl+s"}

ActiveEntry == Lookup(m.config.Models, m.config.ActiveModel)

\* a step in which the event loop handled a key message
KeyStep ==
    /\ loop = "idle"
    /\ lingering' = lingering
    /\ ev'.key # "resize"
    /\ ev'.mode = m.currentMode

\* C1: every confirm (Enter or Space) in SelectDocumentType moves to
\* AnswerQuestions with all-empty answers, one per question of the type under
\* the cursor, and question index 0
C1_ConfirmStartsQuestions ==
    (ev.mode = selectionMode /\ ev.key \in {"enter", " "})
        => /\ m.currentMode = questionMode
           /\ m.currentQuestion = 0
           /\ m.answers = [i \in 1..Len(formTypes[m.cursor + 1].questions) |-> <<>>]

\* C2: after a scroll command in ShowResult the offset lies within
\* [0, max(0, total_lines - viewport_height)]
C2_OffsetWithinBounds ==
    (ev.mode = displayMode
     /\ ev.key \in {"up", "down", "pgup", "pgdown", "g", "G"})
        => /\ m.viewport.YOffset >= 0
           /\ m.viewport.YOffset
                <= Max(0, countLines(m.content) - m.viewport.Height)

\* C3: in ShowResult one g arms the pending flag and leaves the offset, a
\* second g right after sets the offset to 0 and disarms, and any other key
\* disarms
C3_TopGesture ==
    [][(KeyStep /\ m.currentMode = displayMode /\ ~Global(m, ev'.key))
        => /\ (ev'.key = "g" /\ ~m.gPressed)
                => (m'.gPressed /\ m'.viewport.YOffset = m.viewport.YOffset)
           /\ (ev'.key = "g" /\ m.gPressed)
                => (~m'.gPressed /\ m'.viewport.YOffset = 0)
           /\ (ev'.key # "g") => ~m'.gPressed]_vars

C5_FailureShowsError ==
    (call.status = "err" /\ hpc = "none")
        => /\ loop = "idle"
           /\ m.currentMode = displayMode
           /\ LET doc == m.viewport.content.src IN
                /\ Head(doc) = "## Error"
                /\ Contains(doc, <<m.config.ActiveModel>>)
                /\ Contains(doc, call.text)

C5_Witness ==
    /\ call.status = "err" /\ hpc = "none"
    /\ Contains(call.text, <<"failed to create LLM client: ">>)
    /\ m.currentMode = displayMode

\* C6: when the transition returns from a request that succeeded, the session
\* is in ShowResult, the raw response is the returned text and the document
\* text is the built document, the heading "## Ticket Summary" and the response
C6_SuccessComposesDocument ==
    (call.status = "ok" /\ hpc = "none")
        => /\ loop = "idle"
           /\ m.currentMode = displayMode
           /\ m.gptRawOutput = call.text
           /\ m.content = buildSelectedMarkdown(m)
                            \o <<NL, "## Ticket Summary", NL, NL>> \o call.text

C6_Witness ==
    /\ call.status = "ok" /\ hpc = "none"
    /\ call.text # <<>>
    /\ \E i \in 1..Len(m.answers) : m.answers[i] # <<>>
    /\ \E i \in 1..Len(m.answers) : m.answers[i] = <<>>

\* C7: at most one request is in flight
C7_OneInFlight == inflight <= 1

C7_Witness ==
    /\ inflight = 1 /\ rpc = "call"
    /\ m.gptRawOutput # <<>>

\* a step of the request goroutine
RequestPathStep ==
    /\ loop = "handling"
    /\ rpc \in {"call", "send"}
    /\ rpc' \notin {rpc, "none"}

C9_CancelAfterCall ==
    /\ (loop = "handling" /\ cancelled) => rpc = "exit"
    /\ hpc = "return" => cancelled
    /\ (hpc = "none" /\ call.status \in {"ok", "err"}) => cancelled

C9_Witness ==
    /\ hpc = "return" /\ cancelled
    /\ call.status = "err"
    /\ spc = "running"

C11_AnswersMatchQuestions ==
    /\ Len(m.answers) = Len(m.currentForm.questions)
    /\ ev = NoEvent => (m.answers = <<>> /\ m.currentForm.questions = <<>>)

C11_Witness ==
    /\ m.currentMode = questionMode
    /\ m.content # <<>>
    /\ m.content[2] # m.currentForm.name
    /\ Len(m.currentForm.questions) # Len(formTypes[1].questions)
    /\ Len(m.answers) = Len(m.currentForm.questions)

UpKeys == {"up", "k"}

DownKeys == {"down", "j"}

\* a key step that reaches the handler of the current screen
HandlerStep == KeyStep /\ ~Global(m, ev'.key)

\* C12: the cursors of the document-type list, the backend list and the theme
\* list stay within their lists; up at index 0 and down at the last index
\* leave the cursor where it is
C12_CursorsInRange ==
    /\ [](/\ m.cursor \in 0..(Len(formTypes) - 1)
          /\ m.modelCursor \in 0..(Len(m.modelKeys) - 1)
          /\ m.styleThemeIndex \in 0..(Len(styleThemes) - 1))
    /\ [][HandlerStep =>
            /\ (m.currentMode = selectionMode
                /\ \/ ev'.key \in UpKeys /\ m.cursor = 0
                   \/ ev'.key \in DownKeys /\ m.cursor = Len(formTypes) - 1)
                  => m'.cursor = m.cursor
            /\ (m.currentMode = modelSelectMode
                /\ \/ ev'.key \in UpKeys /\ m.modelCursor = 0
                   \/ ev'.key \in DownKeys /\ m.modelCursor = Len(m.modelKeys) - 1)
                  => m'.modelCursor = m.modelCursor
            /\ (m.currentMode = styleSelectMode
                /\ \/ ev'.key \in UpKeys /\ m.styleThemeIndex = 0
                   \/ ev'.key \in DownKeys
                      /\ m.styleThemeIndex = Len(styleThemes) - 1)
                  => m'.styleThemeIndex = m.styleThemeIndex]_vars

C12_Witness ==
    /\ ev.key = "j" /\ ev.mode = styleSelectMode
    /\ m.styleThemeIndex = Len(styleThemes) - 1
    /\ m.cursor = Len(formTypes) - 1
    /\ m.modelCursor = Len(m.modelKeys) - 1

\* a is buf without its leading and trailing whitespace
IsTrimOf(a, buf) ==
    \E p, q \in 0..Len(buf) :
        /\ p + q <= Len(buf)
        /\ a = SubSeq(buf, p + 1, Len(buf) - q)
        /\ \A i \in 1..p : buf[i] \in Whitespace
        /\ \A i \in (Len(buf) - q + 1)..Len(buf) : buf[i] \in Whitespace
        /\ a # <<>> => (a[1] \notin Whitespace /\ a[Len(a)] \notin Whitespace)

NotLastQuestion == m.currentQuestion < Len(m.currentForm.questions) - 1

\* C13: confirm at a question that is not the last stores the trimmed input
\* buffer as that answer, leaves the other answers, empties the buffer,
\* moves to the next question and stays in AnswerQuestions
C13_ConfirmStoresTrimmed ==
    [][(HandlerStep /\ m.currentMode = questionMode /\ ev'.key = "enter"
        /\ NotLastQuestion)
        => /\ IsTrimOf(m'.answers[m.currentQuestion + 1], m.inputString)
           /\ \A i \in 1..Len(m.answers) :
                i # m.currentQuestion + 1 => m'.answers[i] = m.answers[i]
           /\ Len(m'.answers) = Len(m.answers)
           /\ m'.inputString = <<>>
           /\ m'.currentQuestion = m.currentQuestion + 1
           /\ m'.currentMode = questionMode
           /\ loop' = "idle"]_vars

C13_Witness ==
    /\ ev.key = "enter" /\ ev.mode = questionMode
    /\ ev.input = <<" ">>
    /\ m.currentMode = questionMode
    /\ m.currentQuestion = 2
    /\ m.answers[1] = <<"a">>
    /\ m.answers[2] = <<>>
    /\ m.inputString = <<>>

\* C14: skip does what confirm does on an empty input buffer: the current
\* answer becomes empty, the buffer is emptied whatever it held, and the
\* index advances or, on the last question, the same completion starts
C14_SkipIsEmptyConfirm ==
    [][(HandlerStep /\ m.currentMode = questionMode /\ ev'.key = "ctrl+s")
        => LET r == UpdateKey([m EXCEPT !.inputString = <<>>], "enter")
               h == handleFormCompletion(r.m)
           IN /\ m'.answers[m.currentQuestion + 1] = <<>>
              /\ m'.inputString = <<>>
              /\ r.cmd = "nil"
              /\ ~r.complete => (m' = r.m /\ loop' = "idle"
                                  /\ m'.currentQuestion = m.currentQuestion + 1)
              /\ r.complete
                    => /\ ~NotLastQuestion
                       /\ m' = h.m
                       /\ h.launch => (loop' = "handling" /\ rpc' = "call")
                       /\ ~h.launch => loop' = AfterUpdate(h.m)]_vars

C14_Witness ==
    /\ ev.key = "ctrl+s" /\ ev.mode = questionMode
    /\ ev.input # <<>>
    /\ m.inputString = <<>>
    /\ m.answers[Len(m.answers)] = <<>>
    /\ loop = "handling" /\ rpc = "call"

\* C15: from every screen other than SelectDocumentType, escape sets the
\* screen to SelectDocumentType and changes no other field of the session
C15_EscapeChangesOnlyScreen ==
    [][(KeyStep /\ ev'.key = "esc" /\ m.currentMode # selectionMode)
        => /\ m' = [m EXCEPT !.currentMode = selectionMode]
           /\ loop' = "idle"
           /\ disk' = disk]_vars

C15_Witness ==
    /\ ev.key = "esc" /\ ev.mode = displayMode
    /\ m.currentMode = selectionMode
    /\ m.viewport.YOffset > 0
    /\ m.gptRawOutput # <<>>
    /\ m.answers # <<>>

\* C16: from every screen, also where text is typed, ~ goes to PickBackend and
\* ctrl+t to PickTheme, and the handler of the screen does not get the key
C16_ShortcutsAreGlobal ==
    [][KeyStep
        => /\ ev'.key = "~"
              => (m' = [m EXCEPT !.currentMode = modelSelectMode]
                  /\ loop' = "idle")
           /\ ev'.key = "ctrl+t"
              => (m' = [m EXCEPT !.currentMode = styleSelectMode]
                  /\ loop' = "idle")]_vars

C16_Witness ==
    /\ ev.key = "~" /\ ev.mode = questionMode
    /\ ev.input # <<>>
    /\ m.inputString = ev.input
    /\ m.currentMode = modelSelectMode

\* the backend under the cursor of the backend list
UnderCursor == m.modelKeys[m.modelCursor + 1]

\* the entry has no credential (hosted families) or no address (self-hosted)
LacksCredential(entry) ==
    \/ /\ entry.Provider \in {ProviderOpenAI, ProviderAnthropic}
       /\ entry.APIKey = <<>>
    \/ /\ entry.Provider = ProviderLocal
       /\ entry.APIBaseURL = <<>>

\* C17: confirm in PickBackend makes the backend under the cursor active,
\* hands the configuration to saveConfig, and goes to ConfigureBackend when
\* the entry lacks its credential or address and to SelectDocumentType
\* otherwise
C17_PickBackendConfirm ==
    [][(HandlerStep /\ m.currentMode = modelSelectMode
        /\ ev'.key \in {"enter", " "})
        => /\ m'.config.ActiveModel = UnderCursor
           /\ m'.selectedModel = UnderCursor
           /\ m'.config.Models = m.config.Models
           /\ UpdateKey(m, ev'.key).save
           /\ disk' \in {disk, m'.config}
           /\ m'.currentMode = IF LacksCredential(m.config.Models[UnderCursor])
                               THEN apiKeyInputMode ELSE selectionMode
           /\ loop' = "idle"]_vars

C17_Witness ==
    /\ ev.key = "enter" /\ ev.mode = modelSelectMode
    /\ m.currentMode = apiKeyInputMode
    /\ m.config.ActiveModel = "ollama"
    /\ disk = m.config
    /\ m.config.Models["openai"].APIKey # <<>>

\* C18: the configure command in PickBackend goes to ConfigureBackend for
\* the backend under the cursor, with or without its credential, and makes
\* it the active backend
C18_ConfigureCommand ==
    [][(HandlerStep /\ m.currentMode = modelSelectMode /\ ev'.key = "c")
        => /\ m'.currentMode = apiKeyInputMode
           /\ m'.config.ActiveModel = UnderCursor
           /\ m'.selectedModel = UnderCursor
           /\ m'.config.Models = m.config.Models
           /\ loop' = "idle"]_vars

C18_Witness ==
    /\ ev.key = "c" /\ ev.mode = modelSelectMode
    /\ m.currentMode = apiKeyInputMode
    /\ m.config.ActiveModel = "anthropic"
    /\ ~LacksCredential(ActiveEntry)
    /\ disk.ActiveModel # "anthropic"

\* the default model name of a backend family
FamilyDefaultName(provider) ==
    DefaultModelConfigs[CHOOSE k \in DOMAIN DefaultModelConfigs :
                            DefaultModelConfigs[k].Provider = provider].ModelName

DefaultLocalAddress == DefaultModelConfigs["ollama"].APIBaseURL

\* the candidates for the trimmed value of a field
Pieces(v) == { SubSeq(v, i, j) : i \in 1..(Len(v) + 1), j \in 0..Len(v) }

ResizeStep ==
    /\ loop = "idle"
    /\ lingering' = lingering
    /\ ev'.key = "resize"

\* C20: on every screen a resize sets the viewport to max(40, width - 4) by
\* max(10, height - 8) and leaves the screen, the cursors, the answers, the
\* question index, the input buffer and the configuration as they are
C20_ResizeFrame ==
    [][ResizeStep
        => /\ \E sz \in TermSizes :
                /\ m'.viewport.Width = (IF sz[1] - 4 > 40 THEN sz[1] - 4 ELSE 40)
                /\ m'.viewport.Height = (IF sz[2] - 8 > 10 THEN sz[2] - 8 ELSE 10)
           /\ m'.currentMode = m.currentMode
           /\ m'.cursor = m.cursor
           /\ m'.modelCursor = m.modelCursor
           /\ m'.styleThemeIndex = m.styleThemeIndex
           /\ m'.answers = m.answers
           /\ m'.currentQuestion = m.currentQuestion
           /\ m'.inputString = m.inputString
           /\ m'.config = m.config
           /\ loop' = "idle"]_vars

C20_Witness ==
    /\ ev.key = "resize" /\ ev.mode = questionMode
    /\ m.currentMode = questionMode
    /\ m.inputString # <<>>
    /\ m.currentQuestion > 0
    /\ m.viewport.Width = 40
    /\ m.viewport.Height = 10

\* the answers one after the other
RECURSIVE FlattenAnswers(_)
FlattenAnswers(answers) ==
    IF answers = <<>> THEN <<>>
    ELSE Head(answers) \o FlattenAnswers(Tail(answers))

\* the i-th numbered section of the document of session s
NumberedSection(s, i) ==
    <<"## ", Itoa(i), ". ", s.currentForm.questions[i], NL, NL>>
    \o s.answers[i] \o <<NL, NL>>

\* the confirm or skip of the last question, which builds the document
CompletionStep ==
    /\ HandlerStep
    /\ m.currentMode = questionMode
    /\ ev'.key \in ConfirmKeys
    /\ ~NotLastQuestion

\* C21: the built document is a heading naming the document type followed by
\* exactly one numbered section per question, in the order of the questions,
\* the i-th numbered i and carrying question i and then answer i, however
\* many of the answers are empty
C21_OneSectionPerQuestion ==
    [][CompletionStep
        => LET doc == m'.content
               n == Len(m'.currentForm.questions)
           IN /\ Len(m'.answers) = n
              /\ n > 0
              /\ Count(doc, "## ") = n
              /\ SubSeq(doc, 1, 4) = <<"# ", m'.currentForm.name, NL, NL>>
              /\ SubSeq(doc, 5, 4 + Len(NumberedSection(m', 1)))
                    = NumberedSection(m', 1)
              /\ \A i \in 1..(n - 1) :
                    Contains(doc, NumberedSection(m', i)
                                  \o NumberedSection(m', i + 1))
              /\ HasSuffix(doc, NumberedSection(m', n))
              /\ Len(doc) = 4 + 8 * n + Len(FlattenAnswers(m'.answers))]_vars

C21_Witness ==
    /\ ev.key \in ConfirmKeys /\ ev.mode = questionMode
    /\ loop = "handling" /\ rpc = "call"
    /\ m.currentForm = formTypes[4]
    /\ m.answers[1] = <<>>
    /\ m.answers[2] = <<"a">>
    /\ m.content = buildSelectedMarkdown(m)

\* the backend call of the latest request was made by the self-hosted client
LocalCallMade ==
    /\ call.status # "none"
    /\ ActiveEntry.Provider = ProviderLocal
    /\ ActiveEntry.APIBaseURL # <<>>

\* number of places where sub occurs in s
Occurrences(s, sub) ==
    Cardinality({ i \in 1..(Len(s) - Len(sub) + 1) :
                    SubSeq(s, i, i + Len(sub) - 1) = sub })

\* C22: with base address http://localhost:11434 the self-hosted client uses
\* the native dialect and posts to http://localhost:11434/api/chat, with
\* http://example.com:8000 it uses the compatible dialect and posts to
\* http://example.com:8000/v1/chat/completions, and one trailing slash on
\* the address changes neither
C22_DefaultAddressesPost ==
    \A slash \in { <<>>, <<"/">> } :
        /\ (LocalCallMade
             /\ ActiveEntry.APIBaseURL = <<"http://", "localhost:11434">> \o slash)
            => /\ LocalNative(ActiveEntry.APIBaseURL)
               /\ LocalRequestURLs(ActiveEntry.APIBaseURL)
                    = { <<"http://", "localhost:11434", "/api", "/chat">> }
        /\ (LocalCallMade
             /\ ActiveEntry.APIBaseURL = <<"http://", "example.com:8000">> \o slash)
            => /\ ~LocalNative(ActiveEntry.APIBaseURL)
               /\ LocalRequestURLs(ActiveEntry.APIBaseURL)
                    = { <<"http://", "example.com:8000", "/v1", "/chat",
                          "/completions">> }

\* C23: the URL posted to has no duplicated path segment: for an address
\* that ends in /v1 or contains /chat/completions, /v1 and /chat/completions
\* each occur exactly once in it, and for no address does it contain both
\* /v1 and /api/chat
C23_NoDuplicatedSegment ==
    LocalCallMade
        => \A u \in LocalRequestURLs(ActiveEntry.APIBaseURL) :
              /\ (\/ HasSuffix(ActiveEntry.APIBaseURL, <<"/v1">>)
                  \/ Contains(ActiveEntry.APIBaseURL, <<"/chat", "/completions">>))
                    => /\ Occurrences(u, <<"/v1">>) = 1
                       /\ Occurrences(u, <<"/chat", "/completions">>) = 1
              /\ ~(Contains(u, <<"/v1">>) /\ Contains(u, <<"/api", "/chat">>))

\* C29: the self-hosted client uses the native format exactly when the base
\* address contains localhost:11434 or 127.0.0.1:11434
C29_NativeIffLocalDefault ==
    LocalCallMade
        => (LocalNative(ActiveEntry.APIBaseURL)
            <=> \/ Contains(ActiveEntry.APIBaseURL, <<"localhost:11434">>)
                \/ Contains(ActiveEntry.APIBaseURL, <<"127.0.0.1:11434">>))

\* the factory has to refuse the entry
MustRefuse(entry) ==
    \/ entry.Provider \in {ProviderOpenAI, ProviderAnthropic} /\ entry.APIKey = <<>>
    \/ entry.Provider = ProviderLocal /\ entry.APIBaseURL = <<>>
    \/ entry.Provider \notin SupportedProviders

\* C24: the factory gives an error and no client for a hosted entry with an
\* empty credential, a self-hosted entry with an empty address and an entry
\* of an unsupported family; for every other entry it gives no error and the
\* client variant of the entry's family
C24_FactoryRefusesOrMatches ==
    (call.status # "none")
        => LET c == CreateLLMClient(ActiveEntry) IN
           /\ MustRefuse(ActiveEntry)
                => /\ c.client = "nil"
                   /\ c.err # <<>>
                   /\ call = Err(<<"failed to create LLM client: ">> \o c.err)
           /\ ~MustRefuse(ActiveEntry)
                => /\ c.err = <<>>
                   /\ ActiveEntry.Provider = ProviderOpenAI => c.client = "OpenAIClient"
                   /\ ActiveEntry.Provider = ProviderAnthropic => c.client = "ClaudeClient"
                   /\ ActiveEntry.Provider = ProviderLocal => c.client = "LocalLLMClient"
                   /\ ~Contains(call.text, <<"failed to create LLM client: ">>)

C24_Witness ==
    /\ call.status = "err"
    /\ ActiveEntry.Provider = ProviderLocal
    /\ ActiveEntry.APIBaseURL = <<>>
    /\ ActiveEntry.APIKey # <<>>
    /\ Contains(call.text, <<"failed to create LLM client: ">>)

\* C25: a call of the Hosted-A client ends with the text of the first
\* completion or, when the reply has no completion, with an error value; it
\* never ends in a crash
C25_EmptyListIsError ==
    (ActiveEntry.Provider = ProviderOpenAI /\ call.status # "none")
        => /\ call.status \in {"ok", "err"}
           /\ loop # "crashed"

\* the provider's error is a not-found error about the model
AboutModel(reply) ==
    /\ reply.kind \in APIErrorKinds
    /\ APIError(reply).Type = "not_found_error"
    /\ Contains(APIError(reply).Message, <<"model">>)

\* the identifiers the guidance lists
KnownClaudeModels ==
    {"claude-3-opus-20240229", "claude-3-sonnet-20240229", "claude-3-haiku-20240307"}

\* C26: with the Hosted-B backend, the error document of ShowResult shows the
\* error the client returned; for a not-found error about the model that
\* error names the requested model and lists the known identifiers and does
\* not carry the provider's message, and for every other error of the
\* provider it carries the provider's type and message
C26_ModelNotFoundGuidance ==
    (ActiveEntry.Provider = ProviderAnthropic /\ call.status = "err" /\ hpc = "none")
        => /\ m.currentMode = displayMode
           /\ Contains(m.viewport.content.src, call.text)
           /\ \E reply \in ClaudeReplies :
                 call = ClaudeComplete(ActiveEntry.ModelName, reply)
           /\ \A reply \in ClaudeReplies :
                 call = ClaudeComplete(ActiveEntry.ModelName, reply)
                    => /\ AboutModel(reply)
                         => /\ Contains(call.text, ActiveEntry.ModelName)
                            /\ \A id \in KnownClaudeModels : Contains(call.text, <<id>>)
                            /\ ~Contains(call.text, APIError(reply).Message)
                       /\ (reply.kind \in APIErrorKinds /\ ~AboutModel(reply))
                         => /\ Contains(call.text, <<APIError(reply).Type>>)
                            /\ Contains(call.text, APIError(reply).Message)
                       /\ reply.kind \in {"network", "malformed"}
                         => Contains(call.text, LibraryError(reply))

C26_Witness ==
    /\ ActiveEntry.Provider = ProviderAnthropic
    /\ call = ClaudeComplete(ActiveEntry.ModelName, Reply("notfound", <<>>))
    /\ hpc = "none"
    /\ m.currentMode = displayMode
    /\ Contains(m.viewport.content.src, ModelNotFound(ActiveEntry.ModelName))

\* a key step whose handler calls saveConfig
SavingStep ==
    /\ HandlerStep
    /\ \/ m.currentMode = modelSelectMode /\ ev'.key \in {" ", "enter"}
       \/ m.currentMode = apiKeyInputMode /\ ev'.key = "enter" /\ m.saveConfig

\* C27: after confirm in PickBackend, and after confirm in ConfigureBackend
\* with the save toggle set, the session is what the handler made of it,
\* whether the configuration reached the disk or not: the same screen, the
\* same in-memory configuration, and the loop goes on
C27_SaveFailureLeavesSession ==
    [][SavingStep
        => /\ UpdateKey(m, ev'.key).save
           /\ m' = UpdateKey(m, ev'.key).m
           /\ loop' = AfterUpdate(m')
           /\ loop' = "idle"
           /\ disk' \in {disk, m'.config}]_vars

C27_Witness ==
    /\ ev.key = "enter" /\ ev.mode = apiKeyInputMode
    /\ m.saveConfig
    /\ m.currentMode = selectionMode
    /\ loop = "idle"
    /\ m.config.Models["openai"].APIKey = <<"a">>
    /\ disk.Models["openai"].APIKey # <<"a">>

\* printable characters a user can type: a letter that is no shortcut, the
\* space, and the two printable characters Update takes as shortcuts
PrintableKeys == {"a", " ", "q", "~"}

\* C28: in AnswerQuestions every printable character is appended to the
\* input buffer, the screen, the answers and the question index stay as
\* they are, and the session does not end
C28_PrintableAppends ==
    [][(KeyStep /\ m.currentMode = questionMode /\ ev'.key \in PrintableKeys)
        => /\ m'.inputString = m.inputString \o <<ev'.key>>
           /\ m'.currentMode = questionMode
           /\ m'.answers = m.answers
           /\ m'.currentQuestion = m.currentQuestion
           /\ loop' = "idle"]_vars

\* the process has ended, and its goroutines with it
Ended == loop \in {"quit", "crashed"}

\* C30: once the backend call of a request has returned with text or with an
\* error, the request goroutine finds the result slot free and ends, the
\* transition gets to its return with the session in ShowResult, and the
\* spinner goroutine ends with the transition or, left behind by it, goes on
\* to end as long as the process runs
C30_EventuallyShowsResult ==
    /\ [](rpc = "send" => (Len(done) = 0 /\ call.status \in {"ok", "err"}))
    /\ (rpc = "send") ~> (rpc \in {"exit", "none"})
    /\ (rpc = "send")
          ~> (hpc = "none" /\ loop = "idle" /\ m.currentMode = displayMode
              /\ inflight = 0 /\ spc = "none")
    /\ \/ []<>(lingering = 0 \/ Ended)
       \/ []<><<LingeringExit>>_vars

C30_Witness ==
    /\ call.status \in {"ok", "err"}
    /\ loop = "idle"
    /\ hpc = "none" /\ rpc = "none" /\ spc = "none"
    /\ inflight = 0 /\ lingering = 0
    /\ m.currentMode = displayMode

\* C31: whenever the screen is AnswerQuestions the question index lies in
\* 0..len(questions)-1 and there is an answer slot for it, so the view's read
\* of the current question and the handler's write of the current answer
\* are in range
C31_QuestionIndexInRange ==
    (m.currentMode = questionMode)
        => /\ m.currentQuestion \in 0..(Len(m.currentForm.questions) - 1)
           /\ m.currentQuestion + 1 \in 1..Len(m.answers)
           /\ ~ViewPanics(m)

C31_Witness ==
    /\ m.currentMode = questionMode
    /\ loop = "idle"
    /\ ev.key = "ctrl+s" /\ ev.mode = questionMode
    /\ m.currentQuestion = Len(m.currentForm.questions) - 1
    /\ m.currentForm = formTypes[2]
    /\ m.gptRawOutput # <<>>

\* C32: on every entry to AnswerQuestions the input buffer is empty
C32_EntryWithEmptyBuffer ==
    [][(KeyStep /\ m.currentMode # questionMode /\ m'.currentMode = questionMode)
        => m'.inputString = <<>>]_vars

\* C33: whenever the screen is ShowResult and the loop waits for the next
\* event, the viewport holds the rendering of the stored document text
C33_ResultShowsStoredDocument ==
    (m.currentMode = displayMode /\ loop = "idle")
        => m.viewport.content.src = m.content

\* C34: when ShowResult shows the outcome of a failed request, the stored raw
\* response, which the copy command exports, is not the text of a response
\* to an earlier submission
C34_RawResponseOfThisSubmission ==
    (m.currentMode = displayMode /\ hpc = "none" /\ call.status = "err")
        => m.gptRawOutput \notin Responses

\* C35: on every entry to ShowResult the pending-top flag is disarmed
C35_EntryDisarmsTopFlag ==
    [][(m.currentMode # displayMode /\ m'.currentMode = displayMode)
        => ~m'.gPressed]_vars

\* the entry ConfigureBackend reads and writes
SelectedEntry == Lookup(m.config.Models, m.selectedModel)

\* nothing is typed in the three fields of ConfigureBackend
NothingTyped ==
    /\ m.apiKeyInput.value = <<>>
    /\ m.apiBaseInput.value = <<>>
    /\ m.modelNameInput.value = <<>>

\* C36: confirm in ConfigureBackend with nothing typed, for a backend that
\* has its credential or address, leaves that backend's entry as it was
C36_BlankConfirmKeepsEntry ==
    [][(HandlerStep /\ m.currentMode = apiKeyInputMode /\ ev'.key = "enter"
        /\ NothingTyped /\ ~LacksCredential(SelectedEntry))
        => Lookup(m'.config.Models, m.selectedModel) = SelectedEntry]_vars

\* C37: confirm in ConfigureBackend never stores in the backend's entry the
\* credential or the model name that another backend's entry holds
C37_CredentialStaysWithBackend ==
    [][(HandlerStep /\ m.currentMode = apiKeyInputMode /\ ev'.key = "enter")
        => \A other \in DOMAIN m.config.Models \ {m.selectedModel} :
              LET mine == Lookup(m'.config.Models, m.selectedModel)
                  theirs == m.config.Models[other]
              IN /\ theirs.APIKey # <<>> => mine.APIKey # theirs.APIKey
                 /\ theirs.ModelName # <<>> => mine.ModelName # theirs.ModelName]_vars

\* C38: the backend identifier ConfigureBackend reads and writes an entry
\* with is the active backend identifier a request is started with
C38_SelectedIsActive == m.selectedModel = m.config.ActiveModel

C38_Witness ==
    /\ ev.key = "enter" /\ ev.mode = apiKeyInputMode
    /\ m.currentMode = selectionMode
    /\ m.selectedModel = "openai"
    /\ m.config.ActiveModel = "openai"
    /\ disk.ActiveModel = "ollama"
    /\ m.config.Models["openai"].ModelName = <<"a">>

\* C39: whenever a request is started, the active backend identifier is
\* non-empty and one of those offered in PickBackend, and its entry belongs
\* to one of the three supported provider families
C39_RequestForListedBackend ==
    (loop = "handling" /\ rpc = "call")
        => /\ m.config.ActiveModel # ""
           /\ \E i \in 1..Len(m.modelKeys) : m.modelKeys[i] = m.config.ActiveModel
           /\ m.config.ActiveModel \in DOMAIN m.config.Models
           /\ ActiveEntry.Provider \in SupportedProviders

====
